---- MODULE Spec2Model ----
(***************************************************************************)
(* Recurring-task occurrence engine of DuperAIO: the occurrence predicate, *)
(* the exception ledger of the planner screen, and the day lists derived   *)
(* from them (planner day list, home-screen "Up Next"), together with the  *)
(* reminders of the tasks, the alarm screen and the notes screen.          *)
(*                                                                         *)
(* Representation                                                          *)
(*   'YYYY-MM-DD' string  : a tuple <<y, m, d>> (m in 1..12)               *)
(*   'HH:MM' string       : a tuple <<h, m>>; NoTime is undefined / ''     *)
(*   Date object          : its time value in seconds since the epoch      *)
(*   tz                   : Date.getTimezoneOffset() of the device, in     *)
(*                          minutes (UTC minus local), fixed (no DST)      *)
(*   null                 : the empty sequence; a value that may be null   *)
(*                          is a sequence of length 0 or 1                 *)
(***************************************************************************)
EXTENDS Integers, Sequences, FiniteSets, TLC

VARIABLES
    tz,            \* device timezone offset (getTimezoneOffset), minutes
    clock,         \* the device clock: what new Date() and Date.now() give
    oTask,         \* occurrence probe: the task handed to occursOnDate
    oTarget,       \* occurrence probe: the target date string
    oPc,           \* occurrence probe: "ask" before the call, "answered" after it
    oResult,       \* occurrence probe: what occursOnDate returned
    tasks,         \* planner: the task list (React state)
    stored,        \* storage: the item under 'plannerTasks_v3' (<<>> is null)
    planLoad,      \* planner: the getItem of the mount effect while it is under way
    nextId,        \* planner: the next Date.now() based task id
    selectedDate,  \* planner: the selected calendar day (a Date)
    showCompleted, \* planner: the "eye" toggle
    now,           \* planner: the now state, the clock as the minute timer last read it
    alert,         \* planner: the Alert dialog on top and what its buttons captured
    alertsUnder,   \* planner: the Alerts opened before it and still open, oldest first
    mounted,       \* planner: per mounted row, the task and the list its swipe handlers closed over
    editingTask,   \* planner: the editingTask of the form modal (<<>> is null)
    modalVisible,  \* planner: the form modal (new or edit) is on screen
    saving,        \* planner: the handleSave / handleDelete calls waiting on the notification centre
    closing,       \* planner: the handleSave calls waiting on setItem before they close the modal
    touches,       \* how many times the user has touched the screen so far
    sliding,       \* planner: the slides under way after a swipe, oldest first
    loading,       \* home screen: the refreshes under way, each with what getItem gives it
    todayTasks,    \* home screen: the "Up Next" list of the last refresh
    streakHistory, \* home screen: the 14-day history of the last refresh
    currentStreak, \* home screen: the streak of the last refresh
    notes,         \* notes screen: the note list (React state)
    notesLoad,     \* notes screen: the loadFromJSON of the mount effect while it is under way
    noteMoves,     \* notes screen: how many times the note list was written so far
    noteInputs,    \* notes screen: how many times a form field was changed so far
    noteAlert,     \* notes screen: the open Alerts, oldest first, and what their buttons captured
    noteMounted,   \* notes screen: per mounted row, the item and list its swipes closed over
    noteEditor,    \* notes screen: the fields of the open editor modal (<<>>: not open)
    noteAuth,      \* notes screen: the open unlock dialog (<<>>: not open)
    noteSearch,    \* notes screen: the text of the search box
    activeTab,     \* notes screen: the tab of the notebook that is shown
    noteSliding,   \* notes screen: the slides under way after a swipe, oldest first
    noteSharing,   \* notes screen: the shareNote calls under way
    nextNoteId,    \* notes screen: the next Date.now() based id of a note or recording
    recording,     \* notes screen: a recording is under way (activeRecording is set)
    voiceNotes,    \* notes screen: the list of recordings (data.voiceNotes)
    voiceCalls,    \* notes screen: the handlers of the Voice tab waiting on an answer
    voiceSave,     \* Voice tab: the fields of the open 'Save Recording' modal (<<>>: not open)
    voiceUnlock,   \* Voice tab: the open unlock dialog (<<>>: not open)
    voiceRename,   \* Voice tab: the open rename dialog, the id it renames (<<>>: not open)
    voiceMounted,  \* Voice tab: per mounted row, the item and list its swipes closed over
    scheduled,     \* notification centre: the scheduled (pending) notifications
    presented,     \* notification centre: the delivered notifications not yet dismissed
    nextNotif,     \* notification centre: the next notification identifier
    platform,      \* alarm handler: Platform.OS
    activeAlarm,   \* alarm handler: the activeAlarm state (<<>> is null)
    activeAlarmRef,   \* alarm handler: activeAlarmRef.current
    snoozeMinutes,    \* alarm handler: the snoozeMinutes state
    snoozeMinutesRef, \* alarm handler: snoozeMinutesRef.current
    vibrating,     \* alarm handler: whether the continuous vibration is running
    slide,         \* alarm handler: the slide animations under way after swipes, oldest first
    handling       \* alarm handler: the handlers waiting on the notification centre

occVars == <<oTask, oTarget, oPc, oResult>>
homeVars == <<todayTasks, streakHistory, currentStreak, loading>>
planVars == <<tasks, stored, planLoad, nextId, selectedDate, showCompleted, now, alert, alertsUnder,
              mounted, editingTask, modalVisible, saving, closing, touches, sliding,
              todayTasks, streakHistory, currentStreak, loading>>
plannerVars == <<tasks, stored, planLoad, nextId, selectedDate, showCompleted, now, alert,
                 alertsUnder, mounted, editingTask, modalVisible, saving, closing, touches,
                 sliding>>
voiceVars == <<recording, voiceNotes, voiceCalls, voiceSave, voiceUnlock, voiceRename, voiceMounted>>
noteVars == <<notes, notesLoad, noteMoves, noteInputs, noteAlert, noteMounted, noteEditor, noteAuth,
              noteSearch, activeTab, noteSliding, noteSharing, nextNoteId, voiceVars>>
remVars == <<clock, scheduled, presented, nextNotif>>
alarmVars == <<platform, activeAlarm, activeAlarmRef, snoozeMinutes, snoozeMinutesRef,
               vibrating, slide, handling>>
\* What no handler of the planner screen touches.
aroundPlanner == <<tz, clock, oTask, oTarget, oPc, oResult,
                   todayTasks, streakHistory, currentStreak, loading,
                   noteVars, presented, alarmVars>>
vars == <<tz, clock, oTask, oTarget, oPc, oResult,
          tasks, stored, planLoad, nextId, selectedDate, showCompleted, now, alert, alertsUnder,
          mounted, editingTask, modalVisible, saving, closing, touches, sliding,
          todayTasks, streakHistory, currentStreak, loading,
          notes, notesLoad, noteMoves, noteInputs, noteAlert, noteMounted, noteEditor, noteAuth,
          noteSearch, activeTab, noteSliding, noteSharing, nextNoteId,
          recording, voiceNotes, voiceCalls, voiceSave, voiceUnlock, voiceRename, voiceMounted,
          scheduled, presented, nextNotif,
          platform, activeAlarm, activeAlarmRef, snoozeMinutes, snoozeMinutesRef,
          vibrating, slide, handling>>

(***************************************************************************)
(* Calendar arithmetic of the JavaScript Date object (proleptic Gregorian) *)
(***************************************************************************)
\* Days since 1970-01-01 of the civil date y-m-d.
DaysFromCivil(y, m, d) ==
    LET yy  == IF m <= 2 THEN y - 1 ELSE y
        era == yy \div 400
        yoe == yy - era * 400
        mp  == (m + 9) % 12
        doy == (153 * mp + 2) \div 5 + d - 1
        doe == yoe * 365 + yoe \div 4 - yoe \div 100 + doy
    IN  era * 146097 + doe - 719468

\* The only element of a one-element set.
Only(S) == CHOOSE x \in S : TRUE

\* The civil date <<y, m, d>> of a day number (days since 1970-01-01). Each
\* intermediate value (doe, yoe, doy, mp, m) is computed once and bound.
CivilFromDays(z) ==
    LET era == (z + 719468) \div 146097
    IN  Only({Only({Only({Only({Only({
            <<yoe + era * 400 + (IF m <= 2 THEN 1 ELSE 0), m, doy - (153 * mp + 2) \div 5 + 1>> :
            m   \in {IF mp < 10 THEN mp + 3 ELSE mp - 9}}) :
            mp  \in {(5 * doy + 2) \div 153}}) :
            doy \in {doe - (365 * yoe + yoe \div 4 - yoe \div 100)}}) :
            yoe \in {(doe - doe \div 1460 + doe \div 36524 - doe \div 146096) \div 365}}) :
            doe \in {(z + 719468) % 146097}})

\* Local day number of the instant t on a device whose offset is z minutes
\* (86400 seconds to the day).
LocalDay(t, z) == (t - z * 60) \div 86400

\* NaN: the time value of an Invalid Date and what its getters return. It is
\* kept apart from every time value and getter result of a valid Date of this
\* model (all of them are >= 0), and it is compared only through StrictEq,
\* Less and GreaterEq, which answer false whenever an operand is NaN.
NaN == 0 - 1

\* x === y, x < y and x >= y on numbers.
StrictEq(x, y)  == x # NaN /\ y # NaN /\ x = y
Less(x, y)      == x # NaN /\ y # NaN /\ x < y
GreaterEq(x, y) == x # NaN /\ y # NaN /\ x >= y

\* Date.prototype.getFullYear / getMonth (0-based) / getDate / getDay (0 = Sunday)
getFullYear(t, z) == IF t = NaN THEN NaN ELSE CivilFromDays(LocalDay(t, z))[1]
getMonth(t, z)    == IF t = NaN THEN NaN ELSE CivilFromDays(LocalDay(t, z))[2] - 1
getDate(t, z)     == IF t = NaN THEN NaN ELSE CivilFromDays(LocalDay(t, z))[3]
getDay(t, z)      == IF t = NaN THEN NaN ELSE (LocalDay(t, z) + 4) % 7

\* A date string that is not of the form YYYY-MM-DD ('not-a-date').
MalformedDate == <<0>>

\* new Date(isoDate + 'T00:00:00'): local midnight of the day the string
\* names; an Invalid Date when the string does not parse.
toDate(isoDate, z) ==
    IF Len(isoDate) = 3
    THEN DaysFromCivil(isoDate[1], isoDate[2], isoDate[3]) * 86400 + z * 60
    ELSE NaN

\* Variant: the year is not compared.
isSameDay_NoYear(a, b, z) ==
    /\ StrictEq(getMonth(a, z), getMonth(b, z))
    /\ StrictEq(getDate(a, z), getDate(b, z))

isSameDay(a, b, z) ==
    /\ StrictEq(getFullYear(a, z), getFullYear(b, z))
    /\ StrictEq(getMonth(a, z), getMonth(b, z))
    /\ StrictEq(getDate(a, z), getDate(b, z))

\* `${getFullYear()}-${getMonth() + 1}-${getDate()}`, zero padded.
formatYMD(t, z) == <<getFullYear(t, z), getMonth(t, z) + 1, getDate(t, z)>>

(***************************************************************************)
(* Occurrence predicate                                                    *)
(***************************************************************************)
\* Length of the month of the instant t (28..31).
DaysInMonthOf(t, z) ==
    LET y == getFullYear(t, z)
        m == getMonth(t, z) + 1
        ny == IF m = 12 THEN y + 1 ELSE y
        nm == IF m = 12 THEN 1 ELSE m + 1
    IN  DaysFromCivil(ny, nm, 1) - DaysFromCivil(y, m, 1)

\* Variant: the guard against dates before the base date is missing.
occursOnDate_NoBaseGuard(task, targetDateStr, z) ==
    LET base    == toDate(task.date, z)
        current == toDate(targetDateStr, z)
    IN  IF task.repeat = "none" THEN isSameDay(base, current, z)
        ELSE CASE task.repeat = "daily"   -> TRUE
               [] task.repeat = "weekly"  -> StrictEq(getDay(base, z), getDay(current, z))
               [] task.repeat = "monthly" -> StrictEq(getDate(base, z), getDate(current, z))
               [] task.repeat = "yearly"  -> /\ StrictEq(getDate(base, z), getDate(current, z))
                                             /\ StrictEq(getMonth(base, z), getMonth(current, z))
               [] OTHER                   -> FALSE

\* Variant: a monthly task whose day does not exist in a month is moved to
\* the last day of that month.
occursOnDate_ClampMonthEnd(task, targetDateStr, z) ==
    LET base    == toDate(task.date, z)
        current == toDate(targetDateStr, z)
    IN  IF task.repeat = "none" THEN isSameDay(base, current, z)
        ELSE IF Less(current, base) THEN FALSE
        ELSE CASE task.repeat = "daily"   -> TRUE
               [] task.repeat = "weekly"  -> StrictEq(getDay(base, z), getDay(current, z))
               [] task.repeat = "monthly" ->
                     \/ StrictEq(getDate(base, z), getDate(current, z))
                     \/ /\ StrictEq(getDate(current, z), DaysInMonthOf(current, z))
                        /\ Less(getDate(current, z), getDate(base, z))
               [] task.repeat = "yearly"  -> /\ StrictEq(getDate(base, z), getDate(current, z))
                                             /\ StrictEq(getMonth(base, z), getMonth(current, z))
               [] OTHER                   -> FALSE

\* Variant: the yearly rule forgets the month.
occursOnDate_YearlyNoMonth(task, targetDateStr, z) ==
    LET base    == toDate(task.date, z)
        current == toDate(targetDateStr, z)
    IN  IF task.repeat = "none" THEN isSameDay(base, current, z)
        ELSE IF Less(current, base) THEN FALSE
        ELSE CASE task.repeat = "daily"   -> TRUE
               [] task.repeat = "weekly"  -> StrictEq(getDay(base, z), getDay(current, z))
               [] task.repeat = "monthly" -> StrictEq(getDate(base, z), getDate(current, z))
               [] task.repeat = "yearly"  -> StrictEq(getDate(base, z), getDate(current, z))
               [] OTHER                   -> FALSE

\* Variant: the weekly rule compares getDate() where getDay() is meant.
occursOnDate_WeeklyByDate(task, targetDateStr, z) ==
    LET base    == toDate(task.date, z)
        current == toDate(targetDateStr, z)
    IN  IF task.repeat = "none" THEN isSameDay(base, current, z)
        ELSE IF Less(current, base) THEN FALSE
        ELSE CASE task.repeat = "daily"   -> TRUE
               [] task.repeat = "weekly"  -> StrictEq(getDate(base, z), getDate(current, z))
               [] task.repeat = "monthly" -> StrictEq(getDate(base, z), getDate(current, z))
               [] task.repeat = "yearly"  -> /\ StrictEq(getDate(base, z), getDate(current, z))
                                             /\ StrictEq(getMonth(base, z), getMonth(current, z))
               [] OTHER                   -> FALSE

occursOnDate(task, targetDateStr, z) ==
    LET base    == toDate(task.date, z)
        current == toDate(targetDateStr, z)
    IN  IF task.repeat = "none" THEN isSameDay(base, current, z)
        ELSE IF Less(current, base) THEN FALSE
        ELSE CASE task.repeat = "daily"   -> TRUE
               [] task.repeat = "weekly"  -> StrictEq(getDay(base, z), getDay(current, z))
               [] task.repeat = "monthly" -> StrictEq(getDate(base, z), getDate(current, z))
               [] task.repeat = "yearly"  -> /\ StrictEq(getDate(base, z), getDate(current, z))
                                             /\ StrictEq(getMonth(base, z), getMonth(current, z))
               [] OTHER                   -> FALSE

(***************************************************************************)
(* Task records                                                            *)
(***************************************************************************)
NoTime == <<>>

Repeats == {"none", "daily", "weekly", "monthly", "yearly"}
Recurring == Repeats \ {"none"}

\* A task as handleSave creates it (isCompleted false, no exceptions yet),
\* with the lead of its reminder and the identifier of the notification
\* scheduled for it (<<>> is null).
AlarmTask(id, date, startTime, repeat, lead, notificationId) ==
    [id |-> id, date |-> date, startTime |-> startTime, repeat |-> repeat,
     isCompleted |-> FALSE, completedExceptions |-> <<>>,
     reminderLeadMinutes |-> lead, notificationId |-> notificationId]

\* A task created without a reminder (alarmLead 0).
NewTask(id, date, startTime, repeat) == AlarmTask(id, date, startTime, repeat, 0, <<>>)

(***************************************************************************)
(* Reference calendar facts, read off the date strings themselves          *)
(***************************************************************************)
DateLT(a, b) ==
    \/ a[1] < b[1]
    \/ a[1] = b[1] /\ a[2] < b[2]
    \/ a[1] = b[1] /\ a[2] = b[2] /\ a[3] < b[3]

DayNumber(s) == DaysFromCivil(s[1], s[2], s[3])

(***************************************************************************)
(* Planner screen: derived day list                                        *)
(***************************************************************************)
\* Array.prototype.includes
Includes(seq, x) == \E i \in 1..Len(seq) : seq[i] = x

\* new Date(`${dateStr}T${startTime}:00`): local wall-clock time on dateStr,
\* an Invalid Date when dateStr is no date.
DateTime(dateStr, startTime, z) ==
    IF toDate(dateStr, z) = NaN THEN NaN
    ELSE toDate(dateStr, z) + (startTime[1] * 60 + startTime[2]) * 60

\* (a.startTime || '23:59'): the sort key, an 'HH:MM' string.
SortKey(t) == IF t.startTime = NoTime THEN <<23, 59>> ELSE t.startTime

\* a.localeCompare(b) <= 0 on two zero-padded 'HH:MM' strings.
KeyLE(a, b) == a[1] < b[1] \/ (a[1] = b[1] /\ a[2] <= b[2])

\* Array.prototype.sort with the start-time comparator (a stable sort).
RECURSIVE SortByStartTime(_)
SortByStartTime(seq) ==
    IF seq = <<>> THEN <<>>
    ELSE LET x      == seq[Len(seq)]
             sorted == SortByStartTime(SubSeq(seq, 1, Len(seq) - 1))
             p      == Cardinality({i \in 1..Len(sorted) : KeyLE(SortKey(sorted[i]), SortKey(x))})
         IN  SubSeq(sorted, 1, p) \o <<x>> \o SubSeq(sorted, p + 1, Len(sorted))

\* Variant: the exceptions recorded for the selected date are not consulted.
dailyTasks_NoExceptions(ts, sel, show, nw, z) ==
    LET dateStr == formatYMD(sel, z)
        Occurs(t) == occursOnDate(t, dateStr, z)
        Keep(t) ==
            IF show THEN TRUE
            ELSE IF t.isCompleted THEN FALSE
            ELSE LET taskTime == IF t.startTime # NoTime
                                 THEN DateTime(dateStr, t.startTime, z)
                                 ELSE toDate(t.date, z)
                 IN  \/ GreaterEq(taskTime, nw)
                     \/ isSameDay(toDate(t.date, z), nw, z)
                     \/ t.startTime = NoTime
    IN  SortByStartTime(SelectSeq(SelectSeq(ts, Occurs), Keep))

\* dailyTasks: the rows of the planner's day list.
dailyTasks(ts, sel, show, nw, z) ==
    LET dateStr == formatYMD(sel, z)
        Occurs(t) == occursOnDate(t, dateStr, z)
        occurring == SelectSeq(ts, Occurs)
        marked == [i \in 1..Len(occurring) |->
                     IF Includes(occurring[i].completedExceptions, dateStr)
                     THEN [occurring[i] EXCEPT !.isCompleted = TRUE]
                     ELSE occurring[i]]
        Keep(t) ==
            IF show THEN TRUE
            ELSE IF t.isCompleted THEN FALSE
            ELSE LET taskTime == IF t.startTime # NoTime
                                 THEN DateTime(dateStr, t.startTime, z)
                                 ELSE toDate(t.date, z)
                 IN  \/ GreaterEq(taskTime, nw)
                     \/ isSameDay(toDate(t.date, z), nw, z)
                     \/ t.startTime = NoTime
    IN  SortByStartTime(SelectSeq(marked, Keep))

(***************************************************************************)
(* Planner screen of src/screens/PlannerScreen.tsx: derived day view       *)
(***************************************************************************)
\* isTaskInPast: the base date lies before today, or it is today and the
\* start time lies before the clock.
isTaskInPast(task, nw, z) ==
    LET taskDate == toDate(task.date, z)
        today    == toDate(formatYMD(nw, z), z)
    IN  IF Less(taskDate, today) THEN TRUE
        ELSE IF StrictEq(taskDate, today) /\ task.startTime # NoTime
             THEN (today + (task.startTime[1] * 60 + task.startTime[2]) * 60) < nw
             ELSE FALSE

\* tasksForView with viewMode 'day'.
tasksForView(ts, sel, show, nw, z) ==
    LET Active(t) ==
            IF show THEN TRUE
            ELSE IF t.isCompleted THEN FALSE
            ELSE ~isTaskInPast(t, nw, z)
        Occurs(t) == occursOnDate(t, formatYMD(sel, z), z)
    IN  SelectSeq(SelectSeq(ts, Active), Occurs)

\* toggleComplete of src/screens/PlannerScreen.tsx: the list it saves when a
\* row is tapped, whatever the task's repeat rule.
toggleComplete(ts, task) ==
    [i \in 1..Len(ts) |->
        IF ts[i].id = task.id THEN [ts[i] EXCEPT !.isCompleted = ~ts[i].isCompleted]
        ELSE ts[i]]

(***************************************************************************)
(* Home screen: "Up Next"                                                  *)
(***************************************************************************)
\* getLocalDateString (local-component formatting)
getLocalDateString(dateObj, z) ==
    <<getFullYear(dateObj, z), getMonth(dateObj, z) + 1, getDate(dateObj, z)>>

\* toISOString().split('T')[0]: the UTC calendar day of an instant.
toISODate(t) == CivilFromDays(t \div 86400)

\* Variant: the instant is not shifted by the timezone offset.
getLocalDateStringISO_NoShift(dateObj, z) == toISODate(dateObj)

\* getLocalDateString of the second home-screen module: the instant is
\* shifted by getTimezoneOffset() and the UTC day of the result is taken.
getLocalDateStringISO(dateObj, z) ==
    LET offset == z * 60
    IN  toISODate(dateObj - offset)

\* now.getHours() * 60 + now.getMinutes()
MinutesOfDay(t, z) == ((t - z * 60) % 86400) \div 60

\* The filtered and sorted list loadRealTimeTasks hands to setTodayTasks.
HomeTodayTasks(allTasks, nw, z) ==
    LET todayStr == getLocalDateString(nw, z)
        currentMinutes == MinutesOfDay(nw, z)
        Keep(t) ==
            LET occurs == occursOnDate(t, todayStr, z)
                isException == Includes(t.completedExceptions, todayStr)
                isOneTimeDone == t.repeat = "none" /\ t.isCompleted
                isFuture == IF t.startTime # NoTime
                            THEN ~(t.startTime[1] * 60 + t.startTime[2] < currentMinutes)
                            ELSE TRUE
            IN  occurs /\ ~isOneTimeDone /\ ~isException /\ isFuture
    IN  SortByStartTime(SelectSeq(allTasks, Keep))

\* for (let i = 13; i >= 0; i--): the oldest day of the history is 13 days
\* before today.
HistoryLookback == 13

\* The tasks counted as done on the day dStr (the forEach of the history loop).
HomeCount(allTasks, dStr, z) ==
    LET Counted(t) ==
            LET occurs == occursOnDate(t, dStr, z)
                isRecurringDone == Includes(t.completedExceptions, dStr)
                isOneTimeDone == t.repeat = "none" /\ t.isCompleted /\ t.date = dStr
            IN  occurs /\ (isRecurringDone \/ isOneTimeDone)
    IN  Len(SelectSeq(allTasks, Counted))

\* Variant: each level starts one count earlier.
HomeIntensity_Inclusive(count) ==
    IF count >= 6 THEN 4
    ELSE IF count >= 4 THEN 3
    ELSE IF count >= 2 THEN 2
    ELSE IF count > 0 THEN 1
    ELSE 0

\* The heatmap level of a day's count.
HomeIntensity(count) ==
    IF count > 6 THEN 4
    ELSE IF count > 4 THEN 3
    ELSE IF count > 2 THEN 2
    ELSE IF count > 0 THEN 1
    ELSE 0

\* The history array: one entry per day, oldest first. Each iteration reads
\* the clock anew (const d = new Date(); d.setDate(d.getDate() - i)); reads[k]
\* is the instant read by the k-th iteration.
HomeHistoryAt(allTasks, reads, z) ==
    [k \in 1..(HistoryLookback + 1) |->
        LET i     == HistoryLookback + 1 - k
            dStr  == getLocalDateString(reads[k] - i * 86400, z)
            count == HomeCount(allTasks, dStr, z)
        IN  [date |-> dStr, count |-> count, intensity |-> HomeIntensity(count)]]

\* The history array when every iteration reads the same instant nw.
HomeHistory(allTasks, nw, z) ==
    HomeHistoryAt(allTasks, [k \in 1..(HistoryLookback + 1) |-> nw], z)

\* The streak loop from index i down: a day with count > 0 adds one, a day
\* without ends the walk unless it is the last entry.
RECURSIVE StreakFrom(_, _)
StreakFrom(history, i) ==
    IF i < 1 THEN 0
    ELSE IF history[i].count > 0 THEN 1 + StreakFrom(history, i - 1)
    ELSE IF i # Len(history) THEN 0
    ELSE StreakFrom(history, i - 1)

\* Variant: a most recent day without completions ends the walk as well.
HomeStreak_BreaksOnToday(history) ==
    IF history[Len(history)].count = 0 THEN 0 ELSE StreakFrom(history, Len(history))

\* tempStreak after the loop.
HomeStreak(history) == StreakFrom(history, Len(history))

(***************************************************************************)

(***************************************************************************)
(* Reminders: alarmManager and the notification centre                     *)
(***************************************************************************)
\* The handlers that may wait on the notification centre at one time, the
\* handleSave calls that may wait on storage at one time, and the
\* notifications the user's actions ask for.
MaxSaving == 2
MaxClosing == 2
MaxNotifications == 3

\* A notification request: its identifier, content.data.taskId, the trigger
\* date, and whether performSnooze made it.
Notification(id, taskId, date, snoozed) ==
    [id |-> id, taskId |-> taskId, date |-> date, snoozed |-> snoozed]

\* getTaskStartDateTime: new Date(year, month - 1, day, hour, minute), with
\* 09:00 for a task without a start time; an Invalid Date when the parts of
\* the date do not parse.
getTaskStartDateTime(task, z) ==
    DateTime(task.date, IF task.startTime # NoTime THEN task.startTime ELSE <<9, 0>>, z)

\* new Date(taskDateTime.getTime() - leadMinutes * 60 * 1000)
TriggerTime(taskDateTime, leadMinutes) ==
    IF taskDateTime = NaN THEN NaN ELSE taskDateTime - leadMinutes * 60

\* Variant: the reminder is set for the start itself.
scheduleTaskReminder_AtStart(task, leadMinutes, nw, z, id) ==
    IF leadMinutes <= 0 THEN {}
    ELSE IF getTaskStartDateTime(task, z) # NaN /\ getTaskStartDateTime(task, z) <= nw THEN {}
    ELSE {Notification(id, task.id, getTaskStartDateTime(task, z), FALSE)}

\* scheduleTaskReminder up to its call of scheduleNotificationAsync: the
\* request it hands over, none for no lead or a trigger not after nw, the
\* instant it reads with new Date(). The comparison is false for the
\* trigger of an Invalid Date, which is handed over. id is the identifier
\* the notification centre gives the notification.
scheduleTaskReminder(task, leadMinutes, nw, z, id) ==
    IF leadMinutes <= 0 THEN {}
    ELSE IF /\ TriggerTime(getTaskStartDateTime(task, z), leadMinutes) # NaN
            /\ TriggerTime(getTaskStartDateTime(task, z), leadMinutes) <= nw THEN {}
    ELSE {Notification(id, task.id, TriggerTime(getTaskStartDateTime(task, z), leadMinutes),
                       FALSE)}

\* scheduleNotificationAsync(request): the notification is created and the
\* call resolves with its identifier, or the call rejects and nothing is
\* created.
scheduleNotificationAsync(request) == {request, {}}

\* What scheduleTaskReminder returns: the identifier when a notification was
\* created, null (<<>>) when none was asked for or the call was rejected
\* (the catch returns null).
ReturnedId(created) == IF created = {} THEN <<>> ELSE <<Only(created).id>>

\* cancelScheduledNotificationAsync(notificationId): the notification is
\* removed from the pending ones.
cancelScheduledNotification(pending, notificationId) ==
    {n \in pending : <<n.id>> # notificationId}

\* cancelReminderById: what is pending afterwards; when the call is rejected
\* the catch only logs and everything stays pending.
cancelReminderById(pending, notificationId) ==
    {cancelScheduledNotification(pending, notificationId), pending}

(***************************************************************************)
(* Planner screen: state and handlers                                      *)
(***************************************************************************)
MaxTasks == 3
MaxExceptions == 2
\* The times the user touches the screen in one run of the app.
MaxTouches == 4

\* The device of the planner runs: UTC+05:30.
PlannerZones == {-330}
\* What the user has entered in the form when 'Done' is pressed: the date,
\* the start time chosen in the time picker, the repeat rule and the lead of
\* the reminder.
Form(date, startTime, repeat, alarmLead) ==
    [date |-> date, startTime |-> startTime, repeat |-> repeat, alarmLead |-> alarmLead]
\* Once today at 09:00 with a reminder 30 minutes ahead, and weekly from
\* shortly after the coming midnight with a reminder 5 minutes ahead.
PlannerForms ==
    {Form(<<2024, 3, 17>>, <<9, 0>>, "none", 30),
     Form(<<2024, 3, 18>>, <<0, 2>>, "weekly", 5)}
\* The calendar cells the user presses.
CellDates == {<<2024, 3, 10>>, <<2024, 3, 17>>}
\* The screens are mounted at 08:00:30 on 2024-03-17; the clock is looked at
\* again at 10:00:30.
MountTime(z) == DateTime(<<2024, 3, 17>>, <<8, 0>>, z) + 30
Clock(z) == {MountTime(z), DateTime(<<2024, 3, 17>>, <<10, 0>>, z) + 30}
\* The instants at which the selector probe mounts the screens: 08:00:00,
\* 09:00:00, 09:00:30, 10:00:00 and 23:59:30 on ViewToday.
ViewToday == <<2024, 3, 17>>
ViewClock(z) ==
    {DateTime(ViewToday, <<8, 0>>, z), DateTime(ViewToday, <<9, 0>>, z),
     DateTime(ViewToday, <<9, 0>>, z) + 30, DateTime(ViewToday, <<10, 0>>, z),
     DateTime(ViewToday, <<23, 59>>, z) + 30}

\* JSON.stringify(list): the item setItem stores. JSON.parse gives the list
\* back (the records hold strings, numbers, booleans, null and arrays).
JSONstringify(list) == [parses |-> TRUE, value |-> list]
\* A stored item that JSON.parse rejects.
NotJSON == [parses |-> FALSE, value |-> <<>>]

NoAlert == [kind |-> "none", id |-> 0, todayStr |-> <<>>, tasks |-> <<>>, task |-> <<>>]

\* The slides that may be under way at one time after swipes.
MaxSliding == 1

\* Alert.alert(...): the Alert opens over whatever is on screen, an Alert
\* that is open included.
OpenAlert(a) ==
    /\ alert' = a
    /\ alertsUnder' = IF alert = NoAlert THEN alertsUnder ELSE Append(alertsUnder, alert)

\* A button of the Alert on top is pressed: that Alert closes and the one
\* under it, if any, is on top again.
CloseAlert ==
    /\ alert' = IF alertsUnder = <<>> THEN NoAlert ELSE alertsUnder[Len(alertsUnder)]
    /\ alertsUnder' = SubSeq(alertsUnder, 1, Len(alertsUnder) - 1)

\* The planner and home screens at rest (used while only the probe runs).
PlanIdle ==
    /\ tasks = <<>>
    /\ stored = <<>>
    /\ planLoad = <<>>
    /\ editingTask = <<>>
    /\ modalVisible = FALSE
    /\ saving = <<>>
    /\ closing = 0
    /\ touches = 0
    /\ loading = <<>>
    /\ nextId = 1
    /\ selectedDate = 0
    /\ showCompleted = FALSE
    /\ now = 0
    /\ alert = NoAlert
    /\ alertsUnder = <<>>
    /\ sliding = <<>>
    /\ mounted = <<>>
    /\ todayTasks = <<>>
    /\ streakHistory = <<>>
    /\ currentStreak = 0

OccIdle ==
    /\ oTask = NewTask(0, <<1970, 1, 1>>, NoTime, "none")
    /\ oTarget = <<1970, 1, 1>>
    /\ oPc = "ask"
    /\ oResult = FALSE

\* The notes screen is not open.
NotesIdle ==
    /\ notes = <<>>
    /\ notesLoad = <<>>
    /\ noteMoves = 0
    /\ noteInputs = 0
    /\ noteAlert = <<>>
    /\ noteMounted = <<>>
    /\ noteEditor = <<>>
    /\ noteAuth = <<>>
    /\ noteSearch = ""
    /\ activeTab = "notes"
    /\ noteSliding = <<>>
    /\ noteSharing = 0
    /\ nextNoteId = 1
    /\ recording = FALSE
    /\ voiceNotes = <<>>
    /\ voiceCalls = <<>>
    /\ voiceSave = <<>>
    /\ voiceUnlock = <<>>
    /\ voiceRename = <<>>
    /\ voiceMounted = <<>>

\* Nothing is scheduled or delivered.
RemIdle ==
    /\ scheduled = {}
    /\ presented = {}
    /\ nextNotif = 1

\* The alarm handler as mounted: no alarm, the snooze choice at 5 minutes.
AlarmIdle ==
    /\ platform = "android"
    /\ activeAlarm = <<>>
    /\ activeAlarmRef = <<>>
    /\ snoozeMinutes = 5
    /\ snoozeMinutesRef = 5
    /\ vibrating = FALSE
    /\ slide = <<>>
    /\ handling = <<>>

\* The planner screen as it mounts on the stored item item (<<>> is null):
\* the list is empty, the mount effect has asked storage for the item and
\* waits for it, selectedDate and now are both new Date().
PlannerMount(item) ==
    /\ tasks = <<>>
    /\ stored = item
    /\ planLoad = <<item>>
    /\ editingTask = <<>>
    /\ modalVisible = FALSE
    /\ saving = <<>>
    /\ closing = 0
    /\ touches = 0
    /\ now = clock
    /\ selectedDate = clock
    /\ showCompleted = FALSE
    /\ alert = NoAlert
    /\ alertsUnder = <<>>
    /\ sliding = <<>>
    /\ mounted = <<>>

\* The home screen before its first refresh.
HomeMount ==
    /\ loading = <<>>
    /\ todayTasks = <<>>
    /\ streakHistory = <<>>
    /\ currentStreak = 0

\* The next task id (Date.now() at 'Done') when the stored item is item.
FreshId(item) == IF item = <<>> THEN 1 ELSE Len(item[1].value) + 1

\* The reminders still pending from earlier runs for the tasks of the list
\* ts, as scheduleTaskReminder asked for them: notification k is the one of
\* the k-th task that names one.
PendingFor(ts, z) ==
    {Notification(ts[i].notificationId[1], ts[i].id,
                  TriggerTime(getTaskStartDateTime(ts[i], z), ts[i].reminderLeadMinutes),
                  FALSE) :
        i \in {k \in 1..Len(ts) : ts[k].notificationId # <<>>}}

\* The notification centre when the app starts on the stored item item.
NotificationCentre(item) ==
    /\ scheduled = IF item = <<>> THEN {} ELSE PendingFor(item[1].value, tz)
    /\ presented = {}
    /\ nextNotif = Cardinality(scheduled) + 1

\* What is stored when the app starts: nothing (first start), or the list
\* of an earlier run: a weekly task begun last week at 09:00 and a task for
\* today at 09:00 whose reminder, 30 minutes ahead, is pending; or the
\* weekly task alone with today's occurrence completed.
WeeklyTask == AlarmTask(1, <<2024, 3, 10>>, <<9, 0>>, "weekly", 0, <<>>)
TodayTask == AlarmTask(2, <<2024, 3, 17>>, <<9, 0>>, "none", 30, <<1>>)
PlannerItems ==
    {<<>>,
     <<JSONstringify(<<WeeklyTask, TodayTask>>)>>,
     <<JSONstringify(<<[WeeklyTask EXCEPT !.completedExceptions = <<<<2024, 3, 17>>>>]>>)>>}

\* The app starts and the planner screen mounts.
Init ==
    /\ tz \in PlannerZones
    /\ clock = MountTime(tz)
    /\ OccIdle
    /\ NotesIdle
    /\ AlarmIdle
    /\ \E item \in PlannerItems :
          /\ PlannerMount(item)
          /\ nextId = FreshId(item)
          /\ NotificationCentre(item)
    /\ HomeMount

\* The user touches the screen (a press, or the release of a swipe).
Touch ==
    /\ touches < MaxTouches
    /\ touches' = touches + 1

\* The rows on screen.
Rows == dailyTasks(tasks, selectedDate, showCompleted, now, tz)

\* Each row is a SwipeableTask keyed by the task id. Its PanResponder is
\* created once, in a ref, when the row mounts, so onSwipeLeft / onSwipeRight
\* keep the task and the task list of the render that mounted the row until
\* the row leaves the list.
Remount(old, rows, ts) ==
    [id \in {rows[r].id : r \in 1..Len(rows)} |->
        IF id \in DOMAIN old THEN old[id]
        ELSE LET r == CHOOSE k \in 1..Len(rows) : rows[k].id = id
             IN  [task |-> rows[r], tasks |-> ts]]

\* The render that follows a state change.
Render ==
    mounted' = Remount(mounted, dailyTasks(tasks', selectedDate', showCompleted', now', tz'),
                       tasks')

\* The device clock moves on to the next instant at which it is looked at.
TimePasses ==
    /\ \E t \in Clock(tz) : t > clock /\ clock' = t
    /\ UNCHANGED <<tz, occVars, planVars, noteVars, scheduled, presented, nextNotif, alarmVars>>

\* setInterval(() => setNow(new Date()), 60000). The timer does not run
\* while the app is suspended, so now may lie behind the clock.
Tick ==
    /\ clock # now
    /\ now' = clock
    /\ UNCHANGED <<tasks, stored, planLoad, nextId, selectedDate, showCompleted, alert, alertsUnder,
                   editingTask, modalVisible, saving, closing, touches, sliding>>
    /\ UNCHANGED <<scheduled, nextNotif>>
    /\ UNCHANGED aroundPlanner
    /\ Render

\* Storage answers the getItem of the mount effect with the item as it was
\* at mount: null sets nothing, an item that does not parse throws into the
\* catch, which only logs; otherwise setTasks(JSON.parse(stored)).
PlannerLoaded ==
    /\ planLoad # <<>>
    /\ planLoad' = <<>>
    /\ tasks' = IF planLoad[1] # <<>> /\ planLoad[1][1].parses
                THEN planLoad[1][1].value
                ELSE tasks
    /\ UNCHANGED <<stored, nextId, selectedDate, showCompleted, now, alert, alertsUnder,
                   editingTask, modalVisible, saving, closing, touches, sliding>>
    /\ UNCHANGED <<scheduled, nextNotif>>
    /\ UNCHANGED aroundPlanner
    /\ Render

\* A calendar cell is pressed: setSelectedDate(cellDate).
SelectDate ==
    /\ Touch
    /\ alert = NoAlert
    /\ ~modalVisible
    /\ \E d \in CellDates : selectedDate' = toDate(d, tz)
    /\ UNCHANGED <<tasks, stored, planLoad, nextId, showCompleted, now, alert, alertsUnder,
                   editingTask, modalVisible, saving, closing, sliding>>
    /\ UNCHANGED <<scheduled, nextNotif>>
    /\ UNCHANGED aroundPlanner
    /\ Render

\* The eye icon: setShowCompleted(!showCompleted).
ToggleShowCompleted ==
    /\ Touch
    /\ alert = NoAlert
    /\ ~modalVisible
    /\ showCompleted' = ~showCompleted
    /\ UNCHANGED <<tasks, stored, planLoad, nextId, selectedDate, now, alert, alertsUnder,
                   editingTask, modalVisible, saving, closing, sliding>>
    /\ UNCHANGED <<scheduled, nextNotif>>
    /\ UNCHANGED aroundPlanner
    /\ Render

\* saveTasks(next): setTasks(next) and AsyncStorage.setItem of its JSON.
saveTasks(next) ==
    /\ tasks' = next
    /\ stored' = <<JSONstringify(next)>>

\* The '+' button: openCreateModal resets the form, clears editingTask and
\* shows the modal.
OpenCreateModal ==
    /\ Touch
    /\ alert = NoAlert
    /\ ~modalVisible
    /\ editingTask' = <<>>
    /\ modalVisible' = TRUE
    /\ UNCHANGED <<tasks, stored, planLoad, nextId, selectedDate, showCompleted, now, alert,
                   alertsUnder, saving, closing, sliding>>
    /\ UNCHANGED <<scheduled, nextNotif>>
    /\ UNCHANGED aroundPlanner
    /\ Render

\* 'Done' with a title of blanks only (the create form opens with an empty
\* title): handleSave shows the 'Missing Info' Alert and returns.
HandleSaveBlank ==
    /\ Touch
    /\ alert = NoAlert
    /\ modalVisible
    /\ OpenAlert([kind |-> "info", id |-> 0, todayStr |-> <<>>, tasks |-> <<>>, task |-> <<>>])
    /\ UNCHANGED <<tasks, stored, planLoad, nextId, selectedDate, showCompleted, now,
                   editingTask, modalVisible, saving, closing, sliding>>
    /\ UNCHANGED <<scheduled, nextNotif>>
    /\ UNCHANGED aroundPlanner
    /\ Render

\* 'OK' on the 'Missing Info' Alert.
AlertOk ==
    /\ Touch
    /\ alert.kind = "info"
    /\ CloseAlert
    /\ UNCHANGED <<tasks, stored, planLoad, nextId, selectedDate, showCompleted, now,
                   editingTask, modalVisible, saving, closing, sliding>>
    /\ UNCHANGED <<scheduled, nextNotif>>
    /\ UNCHANGED aroundPlanner
    /\ Render
(***************************************************************************)
(* Planner screen: handleSave, swipes, handleDelete, toggleComplete        *)
(***************************************************************************)
\* A handleSave call or a 'Delete' button handler that waits on the
\* notification centre: which await it is at ("cancel": cancelReminderById,
\* "schedule": scheduleTaskReminder), the task it saves or deletes, whether
\* the task is new, the task list its render closed over, and for "schedule"
\* the identifier scheduleTaskReminder is about to return.
Pending(kind, stage, task, isNew, ts, returned) ==
    [kind |-> kind, stage |-> stage, task |-> task, isNew |-> isNew, tasks |-> ts,
     returned |-> returned]

\* The sequence without its k-th element.
Drop(seq, k) == [i \in 1..(Len(seq) - 1) |-> IF i < k THEN seq[i] ELSE seq[i + 1]]

\* updatedTasks as handleSave hands it to saveTasks: the new task pushed on
\* the list of its render, or that list with the edited task replaced.
Written(h, notificationId) ==
    IF h.isNew
    THEN Append(h.tasks, [h.task EXCEPT !.notificationId = notificationId])
    ELSE [i \in 1..Len(h.tasks) |->
             IF h.tasks[i].id = h.task.id
             THEN [h.task EXCEPT !.notificationId = notificationId]
             ELSE h.tasks[i]]

\* handleSave from the reminder on, for the call h (rest are the other
\* waiting handlers). With a lead and a start time scheduleTaskReminder is
\* called; it reads the clock. When it hands a request to the notification
\* centre the call waits for the answer. Otherwise notificationId is null,
\* the list is written at once and the call waits for setItem.
ScheduleAndSave(h, rest) ==
    \E request \in {IF h.task.reminderLeadMinutes > 0 /\ h.task.startTime # NoTime
                    THEN scheduleTaskReminder(h.task, h.task.reminderLeadMinutes,
                                              clock, tz, nextNotif)
                    ELSE {}} :
       IF request = {}
       THEN /\ saveTasks(Written(h, <<>>))
            /\ saving' = rest
            /\ closing' = closing + 1
            /\ UNCHANGED <<scheduled, nextNotif>>
       ELSE /\ \E created \in scheduleNotificationAsync(request) :
                  /\ scheduled' = scheduled \cup created
                  /\ nextNotif' = nextNotif + Cardinality(created)
                  /\ saving' = Append(rest, [h EXCEPT !.stage = "schedule",
                                                      !.returned = ReturnedId(created)])
            /\ UNCHANGED <<tasks, stored, closing>>

\* 'Done' in the form opened by '+' (or still open after an earlier 'Done'),
\* with a title: handleSave with no editingTask. The id is Date.now().
HandleSaveNew ==
    /\ Touch
    /\ alert = NoAlert
    /\ modalVisible
    /\ editingTask = <<>>
    /\ Len(saving) < MaxSaving
    /\ closing + Len(saving) < MaxClosing
    /\ nextId <= MaxTasks
    /\ nextNotif <= MaxNotifications
    /\ \E f \in PlannerForms :
          ScheduleAndSave(Pending("save", "schedule",
                                  AlarmTask(nextId, f.date, f.startTime, f.repeat,
                                            f.alarmLead, <<>>),
                                  TRUE, tasks, <<>>),
                          saving)
    /\ nextId' = nextId + 1
    /\ UNCHANGED <<planLoad, selectedDate, showCompleted, now, alert, alertsUnder,
                   editingTask, modalVisible, sliding>>
    /\ UNCHANGED aroundPlanner
    /\ Render

\* { ...editingTask, ...newTaskBase }: the form fields overwrite the task the
\* modal was opened with; id, isCompleted and completedExceptions are taken
\* from editingTask.
EditedTask(edited, f) ==
    [edited EXCEPT !.date = f.date, !.startTime = f.startTime, !.repeat = f.repeat,
                   !.reminderLeadMinutes = f.alarmLead]

\* A row is released beyond the threshold to the left of where it was: the
\* slide starts. Its end calls onSwipeLeft of the render that mounted the
\* row.
TaskSwipeLeft ==
    /\ Touch
    /\ alert = NoAlert
    /\ ~modalVisible
    /\ Len(sliding) < MaxSliding
    /\ \E id \in DOMAIN mounted :
          sliding' = Append(sliding, [dir |-> "left", task |-> mounted[id].task,
                                      tasks |-> mounted[id].tasks])
    /\ UNCHANGED <<tasks, stored, planLoad, nextId, selectedDate, showCompleted, now, alert,
                   alertsUnder, editingTask, modalVisible, saving, closing>>
    /\ UNCHANGED <<scheduled, nextNotif>>
    /\ UNCHANGED aroundPlanner
    /\ Render

\* The slide to the left ends: openEditModal(task) with the task the row's
\* handler closed over; the modal opens, whatever is open by now, with
\* editingTask set.
OpenEditModal ==
    /\ sliding # <<>>
    /\ Head(sliding).dir = "left"
    /\ editingTask' = <<Head(sliding).task>>
    /\ modalVisible' = TRUE
    /\ sliding' = Tail(sliding)
    /\ UNCHANGED <<tasks, stored, planLoad, nextId, selectedDate, showCompleted, now, alert,
                   alertsUnder, saving, closing, touches>>
    /\ UNCHANGED <<scheduled, nextNotif>>
    /\ UNCHANGED aroundPlanner
    /\ Render

\* 'Cancel' in the modal's bar (or the back button): setModalVisible(false).
CloseEditModal ==
    /\ Touch
    /\ alert = NoAlert
    /\ modalVisible
    /\ modalVisible' = FALSE
    /\ UNCHANGED <<tasks, stored, planLoad, nextId, selectedDate, showCompleted, now, alert,
                   alertsUnder, editingTask, saving, closing, sliding>>
    /\ UNCHANGED <<scheduled, nextNotif>>
    /\ UNCHANGED aroundPlanner
    /\ Render

\* 'Done' in the edit modal, with a title: handleSave with an editingTask.
\* When editingTask names a notification, cancelReminderById is called and
\* the call waits for its answer; otherwise it goes on to the reminder at
\* once.
HandleSaveEdit ==
    /\ Touch
    /\ alert = NoAlert
    /\ modalVisible
    /\ editingTask # <<>>
    /\ Len(saving) < MaxSaving
    /\ closing + Len(saving) < MaxClosing
    /\ nextNotif <= MaxNotifications
    /\ \E f \in PlannerForms :
          \E h \in {Pending("save", "cancel", EditedTask(editingTask[1], f), FALSE, tasks, <<>>)} :
             IF editingTask[1].notificationId # <<>>
             THEN /\ scheduled' \in cancelReminderById(scheduled, editingTask[1].notificationId)
                  /\ saving' = Append(saving, h)
                  /\ UNCHANGED <<tasks, stored, closing, nextNotif>>
             ELSE ScheduleAndSave(h, saving)
    /\ UNCHANGED <<planLoad, nextId, selectedDate, showCompleted, now, alert, alertsUnder,
                   editingTask, modalVisible, sliding>>
    /\ UNCHANGED aroundPlanner
    /\ Render

\* The notification centre has answered the cancelReminderById of a
\* handleSave: the call goes on to the reminder of the edited task.
HandleSaveSchedule ==
    /\ \E k \in 1..Len(saving) :
          /\ saving[k].kind = "save"
          /\ saving[k].stage = "cancel"
          /\ ScheduleAndSave(saving[k], Drop(saving, k))
    /\ UNCHANGED <<planLoad, nextId, selectedDate, showCompleted, now, alert, alertsUnder,
                   editingTask, modalVisible, touches, sliding>>
    /\ UNCHANGED aroundPlanner
    /\ Render

\* The notification centre has answered the scheduleTaskReminder of a
\* handleSave: the call stores what was returned as notificationId, writes
\* its list and waits for setItem.
HandleSaveWrite ==
    /\ \E k \in 1..Len(saving) :
          /\ saving[k].kind = "save"
          /\ saving[k].stage = "schedule"
          /\ saveTasks(Written(saving[k], saving[k].returned))
          /\ saving' = Drop(saving, k)
    /\ closing' = closing + 1
    /\ UNCHANGED <<planLoad, nextId, selectedDate, showCompleted, now, alert, alertsUnder,
                   editingTask, modalVisible, touches, sliding>>
    /\ UNCHANGED <<scheduled, nextNotif>>
    /\ UNCHANGED aroundPlanner
    /\ Render

\* Storage has answered the setItem of a handleSave: the call goes on to
\* setModalVisible(false).
HandleSaveClose ==
    /\ closing > 0
    /\ closing' = closing - 1
    /\ modalVisible' = FALSE
    /\ UNCHANGED <<tasks, stored, planLoad, nextId, selectedDate, showCompleted, now, alert,
                   alertsUnder, editingTask, saving, touches, sliding>>
    /\ UNCHANGED <<scheduled, nextNotif>>
    /\ UNCHANGED aroundPlanner
    /\ Render

\* { ...t, isCompleted: !t.isCompleted }
FlipCompleted(t) == [t EXCEPT !.isCompleted = ~t.isCompleted]

\* toggleComplete(task), repeat 'none': the list handed to saveTasks.
toggleCompleteNone(ts, task) ==
    [i \in 1..Len(ts) |-> IF ts[i].id = task.id THEN FlipCompleted(ts[i]) ELSE ts[i]]

\* toggleComplete(task) on a row of a one-time task (the row's onPress is
\* the one of the latest render): the flag is flipped at once.
ToggleCompleteNone ==
    /\ Touch
    /\ alert = NoAlert
    /\ ~modalVisible
    /\ \E r \in 1..Len(Rows) :
          /\ Rows[r].repeat = "none"
          /\ saveTasks(toggleCompleteNone(tasks, Rows[r]))
    /\ UNCHANGED <<planLoad, nextId, selectedDate, showCompleted, now, alert, alertsUnder,
                   editingTask, modalVisible, saving, closing, sliding>>
    /\ UNCHANGED <<scheduled, nextNotif>>
    /\ UNCHANGED aroundPlanner
    /\ Render

\* toggleComplete(task) on a row of a recurring task: the Alert opens; its
\* buttons close over todayStr and the task list of this render.
ToggleCompleteAsk ==
    /\ Touch
    /\ alert = NoAlert
    /\ ~modalVisible
    /\ \E r \in 1..Len(Rows) :
          /\ Rows[r].repeat # "none"
          /\ OpenAlert([kind |-> "complete", id |-> Rows[r].id,
                        todayStr |-> formatYMD(selectedDate, tz), tasks |-> tasks,
                        task |-> <<>>])
    /\ UNCHANGED <<tasks, stored, planLoad, nextId, selectedDate, showCompleted, now,
                   editingTask, modalVisible, saving, closing, sliding>>
    /\ UNCHANGED <<scheduled, nextNotif>>
    /\ UNCHANGED aroundPlanner
    /\ Render

\* 'Cancel'
AlertCancel ==
    /\ Touch
    /\ alert.kind = "complete"
    /\ CloseAlert
    /\ UNCHANGED <<tasks, stored, planLoad, nextId, selectedDate, showCompleted, now,
                   editingTask, modalVisible, saving, closing, sliding>>
    /\ UNCHANGED <<scheduled, nextNotif>>
    /\ UNCHANGED aroundPlanner
    /\ Render

\* { ...t, completedExceptions: [...(t.completedExceptions || []), todayStr] }
AddException(t, d) ==
    [t EXCEPT !.completedExceptions = Append(t.completedExceptions, d)]

\* 'Only this task'
AlertOnlyThis ==
    /\ Touch
    /\ alert.kind = "complete"
    /\ \A i \in 1..Len(alert.tasks) :
          alert.tasks[i].id = alert.id
              => Len(alert.tasks[i].completedExceptions) < MaxExceptions
    /\ saveTasks([i \in 1..Len(alert.tasks) |->
                     IF alert.tasks[i].id = alert.id
                     THEN AddException(alert.tasks[i], alert.todayStr)
                     ELSE alert.tasks[i]])
    /\ CloseAlert
    /\ UNCHANGED <<planLoad, nextId, selectedDate, showCompleted, now, editingTask, modalVisible,
                   saving, closing, sliding>>
    /\ UNCHANGED <<scheduled, nextNotif>>
    /\ UNCHANGED aroundPlanner
    /\ Render

\* { ...t, isCompleted: true }
EndSeries(t) == [t EXCEPT !.isCompleted = TRUE]

\* 'All upcoming'
AlertAllUpcoming ==
    /\ Touch
    /\ alert.kind = "complete"
    /\ saveTasks([i \in 1..Len(alert.tasks) |->
                     IF alert.tasks[i].id = alert.id
                     THEN EndSeries(alert.tasks[i])
                     ELSE alert.tasks[i]])
    /\ CloseAlert
    /\ UNCHANGED <<planLoad, nextId, selectedDate, showCompleted, now, editingTask, modalVisible,
                   saving, closing, sliding>>
    /\ UNCHANGED <<scheduled, nextNotif>>
    /\ UNCHANGED aroundPlanner
    /\ Render

\* A row is released beyond the threshold to the right of where it was: the
\* slide starts. Its end calls onSwipeRight of the render that mounted the
\* row, which closes over that render's task and task list.
TaskSwipeRight ==
    /\ Touch
    /\ alert = NoAlert
    /\ ~modalVisible
    /\ Len(sliding) < MaxSliding
    /\ \E id \in DOMAIN mounted :
          sliding' = Append(sliding, [dir |-> "right", task |-> mounted[id].task,
                                      tasks |-> mounted[id].tasks])
    /\ UNCHANGED <<tasks, stored, planLoad, nextId, selectedDate, showCompleted, now, alert,
                   alertsUnder, editingTask, modalVisible, saving, closing>>
    /\ UNCHANGED <<scheduled, nextNotif>>
    /\ UNCHANGED aroundPlanner
    /\ Render

\* The slide to the right ends: handleDelete(task) of the render that
\* mounted the row opens the Alert, whatever is open by now; its 'Delete'
\* button closes over that task and that render's task list.
HandleDeleteAsk ==
    /\ sliding # <<>>
    /\ Head(sliding).dir = "right"
    /\ OpenAlert([kind |-> "delete", id |-> Head(sliding).task.id, todayStr |-> <<>>,
                  tasks |-> Head(sliding).tasks, task |-> <<Head(sliding).task>>])
    /\ sliding' = Tail(sliding)
    /\ UNCHANGED <<tasks, stored, planLoad, nextId, selectedDate, showCompleted, now,
                   editingTask, modalVisible, saving, closing, touches>>
    /\ UNCHANGED <<scheduled, nextNotif>>
    /\ UNCHANGED aroundPlanner
    /\ Render

\* 'Cancel' on the delete Alert.
HandleDeleteCancel ==
    /\ Touch
    /\ alert.kind = "delete"
    /\ CloseAlert
    /\ UNCHANGED <<tasks, stored, planLoad, nextId, selectedDate, showCompleted, now,
                   editingTask, modalVisible, saving, closing, sliding>>
    /\ UNCHANGED <<scheduled, nextNotif>>
    /\ UNCHANGED aroundPlanner
    /\ Render

\* tasks.filter((t) => t.id !== task.id)
RemoveTask(ts, id) ==
    LET Other(t) == t.id # id
    IN  SelectSeq(ts, Other)

\* 'Delete': the captured list without the task is written; when the
\* captured task names a reminder, cancelReminderById is called first and
\* the write waits for the notification centre.
HandleDeleteConfirm ==
    /\ Touch
    /\ alert.kind = "delete"
    /\ IF alert.task[1].notificationId = <<>>
       THEN /\ saveTasks(RemoveTask(alert.tasks, alert.id))
            /\ UNCHANGED <<scheduled, saving>>
       ELSE /\ Len(saving) < MaxSaving
            /\ scheduled' \in cancelReminderById(scheduled, alert.task[1].notificationId)
            /\ saving' = Append(saving, Pending("delete", "cancel", alert.task[1], FALSE,
                                                alert.tasks, <<>>))
            /\ UNCHANGED <<tasks, stored>>
    /\ CloseAlert
    /\ UNCHANGED <<planLoad, nextId, selectedDate, showCompleted, now, editingTask, modalVisible,
                   closing, sliding>>
    /\ UNCHANGED nextNotif
    /\ UNCHANGED aroundPlanner
    /\ Render

\* The notification centre has answered the cancelReminderById of a
\* 'Delete' button: its list without the task is written.
HandleDeleteWrite ==
    /\ \E k \in 1..Len(saving) :
          /\ saving[k].kind = "delete"
          /\ saveTasks(RemoveTask(saving[k].tasks, saving[k].task.id))
          /\ saving' = Drop(saving, k)
    /\ UNCHANGED <<planLoad, nextId, selectedDate, showCompleted, now, alert, alertsUnder,
                   editingTask, modalVisible, closing, touches, sliding>>
    /\ UNCHANGED <<scheduled, nextNotif>>
    /\ UNCHANGED aroundPlanner
    /\ Render

\* The planner screen: every handler of the screen, the answers of storage
\* and of the notification centre, and the clock.
Next ==
    \/ TimePasses
    \/ Tick
    \/ PlannerLoaded
    \/ SelectDate
    \/ ToggleShowCompleted
    \/ OpenCreateModal
    \/ HandleSaveBlank
    \/ AlertOk
    \/ HandleSaveNew
    \/ TaskSwipeLeft
    \/ OpenEditModal
    \/ CloseEditModal
    \/ HandleSaveEdit
    \/ HandleSaveSchedule
    \/ HandleSaveWrite
    \/ HandleSaveClose
    \/ ToggleCompleteNone
    \/ ToggleCompleteAsk
    \/ AlertCancel
    \/ AlertOnlyThis
    \/ AlertAllUpcoming
    \/ TaskSwipeRight
    \/ HandleDeleteAsk
    \/ HandleDeleteCancel
    \/ HandleDeleteConfirm
    \/ HandleDeleteWrite

\* The planner screen from the start of the app.
Spec == Init /\ [][Next]_vars

(***************************************************************************)
(* Home screen: loadRealTimeTasks                                          *)
(***************************************************************************)
\* The refreshes that may wait on storage at one time.
MaxLoading == 2

\* Home screen refresh (the timer on the minute, focus, pull to refresh):
\* loadRealTimeTasks asks storage for the item and waits for it, whether or
\* not an earlier refresh still waits. Storage answers in the order asked,
\* each with the item as it was when asked.
LoadGetItem ==
    /\ Len(loading) < MaxLoading
    /\ loading' = Append(loading, stored)
    /\ UNCHANGED <<tz, clock, plannerVars, todayTasks, streakHistory, currentStreak>>
    /\ UNCHANGED <<occVars, noteVars, scheduled, presented, nextNotif, alarmVars>>

\* The clock moves on by ReadDelay seconds while loadRealTimeTasks computes:
\* the reads of new Date() in the history loop, in order, each at or after
\* the read of the today list at t. The clock moves before the loop, before
\* its last iteration, or not before the loop ends.
ReadDelay == 60
\* The instants the clock is read at: those of Clock and ViewClock, and
\* ReadDelay later.
Instants(z) == Clock(z) \cup ViewClock(z) \cup {t + ReadDelay : t \in Clock(z) \cup ViewClock(z)}
ClockReads(t) ==
    {[k \in 1..(HistoryLookback + 1) |-> IF k < j THEN t ELSE t + ReadDelay] :
        j \in {1, HistoryLookback + 1, HistoryLookback + 2}}

\* The list JSON.parse gives the refresh that has waited the longest.
LoadedTasks == Head(loading)[1].value

\* loadRealTimeTasks after the await: for null nothing is set; an item that
\* JSON.parse rejects throws into the empty catch and nothing is set;
\* otherwise the clock is read for the today list and again in every
\* iteration of the history loop, and the today list, the history and the
\* streak are set.
LoadRealTimeTasks ==
    /\ loading # <<>>
    /\ loading' = Tail(loading)
    /\ IF Head(loading) = <<>> \/ ~Head(loading)[1].parses
       THEN UNCHANGED <<clock, todayTasks, streakHistory, currentStreak>>
       ELSE \E reads \in ClockReads(clock) :
               /\ reads[Len(reads)] \in Instants(tz)
               /\ todayTasks' = HomeTodayTasks(LoadedTasks, clock, tz)
               /\ \E history \in {HomeHistoryAt(LoadedTasks, reads, tz)} :
                     /\ streakHistory' = history
                     /\ currentStreak' = HomeStreak(history)
               /\ clock' = reads[Len(reads)]
    /\ UNCHANGED <<tz, plannerVars>>
    /\ UNCHANGED <<occVars, noteVars, scheduled, presented, nextNotif, alarmVars>>

\* The home screen beside the planner's completion handlers: the home
\* screen refreshes from the stored item and the clock at any time.
NextHome ==
    \/ TimePasses
    \/ Tick
    \/ PlannerLoaded
    \/ SelectDate
    \/ ToggleShowCompleted
    \/ ToggleCompleteNone
    \/ ToggleCompleteAsk
    \/ AlertCancel
    \/ AlertOnlyThis
    \/ AlertAllUpcoming
    \/ LoadGetItem
    \/ LoadRealTimeTasks

SpecHome == Init /\ [][NextHome]_vars

(***************************************************************************)
(* Selector probe: the day lists, the history and the streak computed from *)
(* a stored list, as the screens find it when they mount                   *)
(***************************************************************************)
\* A stored task record.
StoredTask(id, date, startTime, repeat, isCompleted, completedExceptions) ==
    [id |-> id, date |-> date, startTime |-> startTime, repeat |-> repeat,
     isCompleted |-> isCompleted, completedExceptions |-> completedExceptions,
     reminderLeadMinutes |-> 0, notificationId |-> <<>>]

ViewTimes == {NoTime, <<8, 0>>, <<9, 0>>, <<23, 59>>}

\* One stored task of any shape: base date a week ago or today, with or
\* without start time, completed or not, with or without today's exception.
SingleLists ==
    {<<StoredTask(1, d, st, r, c, e)>> :
        d \in {<<2024, 3, 10>>, ViewToday}, st \in ViewTimes,
        r \in {"none", "weekly"}, c \in BOOLEAN, e \in {<<>>, <<ViewToday>>}}

\* Three open one-time tasks of today, in every order of start times.
TripleLists ==
    {<<StoredTask(1, ViewToday, a, "none", FALSE, <<>>),
       StoredTask(2, ViewToday, b, "none", FALSE, <<>>),
       StoredTask(3, ViewToday, c, "none", FALSE, <<>>)>> :
        a \in ViewTimes, b \in ViewTimes, c \in ViewTimes}

\* The date string of the day i days before ViewToday.
DaysAgo(i) == CivilFromDays(DaysFromCivil(ViewToday[1], ViewToday[2], ViewToday[3]) - i)

\* A daily task begun three weeks ago, done ("Only this task") on any of
\* the last four days, or on every day of the last two weeks.
StreakLists ==
    {<<StoredTask(1, <<2024, 2, 25>>, NoTime, "daily", FALSE, e)>> :
        e \in {<<>>, <<DaysAgo(0)>>, <<DaysAgo(1)>>, <<DaysAgo(1), DaysAgo(0)>>,
               <<DaysAgo(2)>>, <<DaysAgo(2), DaysAgo(0)>>, <<DaysAgo(2), DaysAgo(1)>>,
               <<DaysAgo(2), DaysAgo(1), DaysAgo(0)>>,
               <<DaysAgo(3), DaysAgo(2), DaysAgo(1)>>,
               <<DaysAgo(3), DaysAgo(2), DaysAgo(0)>>,
               <<DaysAgo(3), DaysAgo(1), DaysAgo(0)>>,
               [k \in 1..14 |-> DaysAgo(14 - k)]}}

\* n completed one-time tasks of today, n = 0..MaxDone.
MaxDone == 8
DoneLists ==
    {[k \in 1..n |-> StoredTask(k, ViewToday, NoTime, "none", TRUE, <<>>)] : n \in 0..MaxDone}

\* A stored record whose date is not a date string, beside a sound one-time
\* task of today.
MalformedLists ==
    {<<StoredTask(1, MalformedDate, st, r, FALSE, e),
       StoredTask(2, ViewToday, <<9, 0>>, "none", FALSE, <<>>)>> :
        st \in {NoTime, <<9, 0>>}, r \in {"none", "daily", "weekly"},
        e \in {<<>>, <<ViewToday>>}}

StoredLists ==
    SingleLists \cup TripleLists \cup StreakLists \cup DoneLists \cup MalformedLists

\* What the screens find stored when they mount: nothing, an item that is
\* not JSON, or one of the lists.
StoredItems == {<<>>, <<NotJSON>>} \cup {<<JSONstringify(list)>> : list \in StoredLists}

\* The screens mount on a stored item at one of the instants of ViewClock.
ViewInit ==
    /\ tz \in PlannerZones
    /\ clock \in ViewClock(tz)
    /\ OccIdle
    /\ NotesIdle
    /\ RemIdle
    /\ AlarmIdle
    /\ \E item \in StoredItems :
          /\ PlannerMount(item)
          /\ nextId = FreshId(item)
    /\ HomeMount

ViewNext ==
    \/ PlannerLoaded
    \/ LoadGetItem
    \/ LoadRealTimeTasks

SpecViews == ViewInit /\ [][ViewNext]_vars


(***************************************************************************)
(* Occurrence probe: occursOnDate applied to a task and a walking date     *)
(***************************************************************************)
OccDays == 430
TimeZones == {-330, 300}
OccStarts == {<<2024, 1, 1>>, <<2028, 1, 1>>}
OccBases == {<<2024, 1, 31>>, <<2024, 2, 29>>, <<2024, 3, 10>>}
\* A repeat value of a stored record that is none of the RepeatRule values
\* (the home screen reads the records as `any`).
UnknownRepeats == {"hourly"}

OccInit ==
    /\ tz \in TimeZones
    /\ oTask \in {NewTask(1, b, NoTime, r) : b \in OccBases, r \in Repeats}
                 \cup {NewTask(1, <<2024, 3, 10>>, NoTime, r) : r \in UnknownRepeats}
    /\ oTarget \in OccStarts
    /\ oPc = "ask"
    /\ oResult = FALSE
    /\ clock = 0
    /\ PlanIdle
    /\ NotesIdle
    /\ RemIdle
    /\ AlarmIdle

\* The caller evaluates the predicate for the current target date.
OccEvaluate ==
    /\ oPc = "ask"
    /\ oPc' = "answered"
    /\ oResult' = occursOnDate(oTask, oTarget, tz)
    /\ UNCHANGED <<tz, oTask, oTarget>>
    /\ UNCHANGED <<clock, planVars, noteVars, scheduled, presented, nextNotif, alarmVars>>

\* The caller moves on to the next calendar day (d.setDate(d.getDate() + 1)).
OccNextDay ==
    /\ \E s \in OccStarts :
          /\ DayNumber(s) <= DayNumber(oTarget)
          /\ DayNumber(oTarget) < DayNumber(s) + OccDays - 1
    /\ oTarget' = formatYMD(toDate(oTarget, tz) + 86400, tz)
    /\ oPc' = "ask"
    /\ oResult' = FALSE
    /\ UNCHANGED <<tz, oTask>>
    /\ UNCHANGED <<clock, planVars, noteVars, scheduled, presented, nextNotif, alarmVars>>

OccNext == OccEvaluate \/ OccNextDay

SpecOccurs == OccInit /\ [][OccNext]_vars

(***************************************************************************)
(* Notes screen: the notebook, its Notes tab and its Voice tab              *)
(***************************************************************************)
\* An ISO timestamp 'YYYY-MM-DDTHH:MM:SS.000Z' is the tuple <<y, m, d, s>> of
\* its UTC date and the seconds of its UTC time of day.
\* Date.prototype.toISOString
toISOString(t) == CivilFromDays(t \div 86400) \o <<t % 86400>>

\* new Date(isoString) of such a timestamp.
parseISO(iso) == DaysFromCivil(iso[1], iso[2], iso[3]) * 86400 + iso[4]

\* The time value of the local date y-m-d (m in 1..12 or 13, d beyond the end
\* of the month runs on into the following month) at sec seconds after
\* local midnight: what setDate, setMonth and setFullYear leave in the Date.
MakeLocal(y, m, d, sec, z) ==
    LET yy == IF m > 12 THEN y + 1 ELSE y
        mm == IF m > 12 THEN m - 12 ELSE m
    IN  (DaysFromCivil(yy, mm, 1) + d - 1) * 86400 + sec + z * 60

\* calculateNextOccurrence: the timestamp is parsed, advanced in local time
\* by setDate / setMonth / setFullYear, and formatted again.
calculateNextOccurrence(currentDateStr, type, z) ==
    LET d   == parseISO(currentDateStr)
        sec == (d - z * 60) % 86400
        y   == getFullYear(d, z)
        m   == getMonth(d, z) + 1
        dd  == getDate(d, z)
    IN  CASE type = "daily"   -> toISOString(MakeLocal(y, m, dd + 1, sec, z))
          [] type = "weekly"  -> toISOString(MakeLocal(y, m, dd + 7, sec, z))
          [] type = "monthly" -> toISOString(MakeLocal(y, m + 1, dd, sec, z))
          [] type = "yearly"  -> toISOString(MakeLocal(y + 1, m, dd, sec, z))
          [] OTHER            -> toISOString(d)

\* A note record. content is the sequence of the pieces of text it was put
\* together from; password is <<>> when undefined.
Note(id, title, content, createdAt, isLocked, password, recurrence) ==
    [id |-> id, title |-> title, content |-> content, createdAt |-> createdAt,
     isLocked |-> isLocked, password |-> password, recurrence |-> recurrence]

MaxMoves == 2
MaxNotes == 3
\* How many times a form field (title, content, repeat rule, PIN, the PIN of
\* the unlock dialog, the search box) is changed.
MaxInputs == 1
\* The shareNote calls that may be under way at one time.
MaxSharing == 1
\* The times the user touches the notebook in one run of the app.
MaxNoteTouches == 7

\* The user touches the notebook: a button, a row, a field or a tab.
NoteTouch ==
    /\ touches < MaxNoteTouches
    /\ touches' = touches + 1

\* The state of the planner and the home screen but for the touches.
planUntouched == <<tasks, stored, planLoad, nextId, selectedDate, showCompleted, now, alert,
                   alertsUnder, mounted, editingTask, modalVisible, saving, closing, sliding,
                   todayTasks, streakHistory, currentStreak, loading>>

\* Local creation time and rule of the first note: weekly from mid-month,
\* monthly from the end of a month, yearly from the leap day.
NoteSeeds ==
    {<<(<<2024, 1, 15, 36000>>), "weekly">>, <<(<<2024, 1, 31, 36000>>), "monthly">>,
     <<(<<2024, 2, 29, 36000>>), "yearly">>}

\* The instant at which a new note is saved: 22:00 on 2024-01-31, local time.
NoteClock(z) == {MakeLocal(2024, 1, 31, 79200, z)}

\* What the user types: a title (or none), a text, a PIN in the editor, a
\* PIN in the unlock dialog (the right one and a wrong one), a search text.
\* Titles and search texts are single lower-case letters.
NoteTitles == {"", "c"}
NoteContents == {"x"}
NotePins == {"1234"}
AuthPins == {"1234", "0000"}
NoteSearches == {"", "a"}
\* The text the third toolbar button inserts.
InsertedTexts == {"\n___\n"}
\* The tab buttons pressed.
Tabs == {"notes", "readLater", "voice"}

\* title.toLowerCase().includes(search.toLowerCase()) for single letters:
\* the empty string is included in every title, a letter in the title that
\* is that letter.
TitleIncludes(title, search) == search = "" \/ title = search

\* filteredNotes
filteredNotes(ns, search) ==
    LET Match(n) == TitleIncludes(n.title, search)
    IN  SelectSeq(ns, Match)

\* Each row is a SwipeableItem keyed by the note id. Its PanResponder is
\* created once, in a ref, when the row mounts, so onSwipeRight / onSwipeLeft
\* keep the item and, through performAction, the note list of the render
\* that mounted the row. rows are the rows of the list (filteredNotes) and
\* ns the note list of that render.
NoteRemount(old, rows, ns) ==
    [id \in {rows[i].id : i \in 1..Len(rows)} |->
        IF id \in DOMAIN old THEN old[id]
        ELSE [item |-> rows[CHOOSE k \in 1..Len(rows) : rows[k].id = id], notes |-> ns]]

\* setNotes(next) and the render that follows: while the Notes tab is shown
\* rows of new ids mount and rows that left the list unmount.
setNotes(next) ==
    /\ notes' = next
    /\ noteMounted' = IF activeTab = "notes"
                      THEN NoteRemount(noteMounted, filteredNotes(next, noteSearch), next)
                      ELSE noteMounted

\* setVoiceNotes(next) and the render that follows: while the Voice tab is
\* shown rows of new ids mount and rows that left the list unmount.
setVoiceNotes(next) ==
    /\ voiceNotes' = next
    /\ voiceMounted' = IF activeTab = "voice"
                       THEN NoteRemount(voiceMounted, next, next)
                       ELSE voiceMounted

\* A recording of the list (a VoiceNote): its id, its lock and its PIN (<<>>
\* when undefined). Name, file, date and duration play no part here.
VoiceNote(id, isLocked, password) ==
    [id |-> id, isLocked |-> isLocked, password |-> password]

\* What loadFromJSON returns when the notebook mounts: nothing (no file yet,
\* or a file that cannot be read or parsed), or the two stored notes, the
\* first of which recurs while the second does not recur or is locked with
\* a PIN, and one stored recording, locked with a PIN.
NoteFiles(z) ==
    {[notes |-> <<>>, voiceNotes |-> <<>>]}
    \cup {[notes |-> <<Note(1, "a", <<>>,
                            toISOString(MakeLocal(seed[1][1], seed[1][2], seed[1][3],
                                                  seed[1][4], z)),
                            FALSE, <<>>, seed[2]),
                       Note(2, "b", <<>>, toISOString(MakeLocal(2024, 1, 31, 36000, z)),
                            locked, IF locked THEN <<"1234">> ELSE <<>>, "none")>>,
            voiceNotes |-> <<VoiceNote(1, TRUE, <<"1234">>)>>] :
              seed \in NoteSeeds, locked \in BOOLEAN}

\* The notebook mounts showing the Notes tab: the note list is empty and
\* the mount effect waits for loadFromJSON.
NotesInit ==
    /\ tz \in TimeZones
    /\ clock = 0
    /\ OccIdle
    /\ PlanIdle
    /\ RemIdle
    /\ AlarmIdle
    /\ notes = <<>>
    /\ notesLoad \in {<<file>> : file \in NoteFiles(tz)}
    /\ noteMoves = 0
    /\ noteInputs = 0
    /\ noteAlert = <<>>
    /\ noteMounted = <<>>
    /\ noteEditor = <<>>
    /\ noteAuth = <<>>
    /\ noteSearch = ""
    /\ activeTab = "notes"
    /\ noteSliding = <<>>
    /\ noteSharing = 0
    /\ nextNoteId = 3
    /\ recording = FALSE
    /\ voiceNotes = <<>>
    /\ voiceCalls = <<>>
    /\ voiceSave = <<>>
    /\ voiceUnlock = <<>>
    /\ voiceRename = <<>>
    /\ voiceMounted = <<>>

\* loadFromJSON has answered: setData(loadedData) replaces the note list
\* and the list of recordings, whatever they hold by now.
NotesLoaded ==
    /\ notesLoad # <<>>
    /\ notesLoad' = <<>>
    /\ setNotes(notesLoad[1].notes)
    /\ setVoiceNotes(notesLoad[1].voiceNotes)
    /\ UNCHANGED <<tz, noteMoves, noteInputs, noteAlert, noteEditor, noteAuth, noteSearch,
                   activeTab, noteSliding, noteSharing, nextNoteId>>
    /\ UNCHANGED <<recording, voiceCalls, voiceSave, voiceUnlock, voiceRename>>
    /\ UNCHANGED occVars
    /\ UNCHANGED planVars
    /\ UNCHANGED remVars
    /\ UNCHANGED alarmVars

\* Nothing is over the list: no Alert, no editor, no unlock dialog, and the
\* Notes tab is the one shown.
NoteListTouchable ==
    /\ activeTab = "notes"
    /\ noteAlert = <<>>
    /\ noteEditor = <<>>
    /\ noteAuth = <<>>

\* The Alert the user can answer: the one opened last.
NoteTopAlert == noteAlert[Len(noteAlert)]

\* Alert.alert(...): the Alert opens over whatever is on screen, the Alerts
\* that are open included.
NotePushAlert(a) == noteAlert' = Append(noteAlert, a)

\* A button of the Alert on top is pressed: that Alert closes.
NotePopAlert == noteAlert' = SubSeq(noteAlert, 1, Len(noteAlert) - 1)

\* performAction(action, note) in a render whose note list is ns: the Alert
\* opens; its buttons close over note and ns.
performAction(note, ns) ==
    NotePushAlert([kind |-> "action", note |-> <<note>>, notes |-> ns])

\* Alert.alert(title, message) with the one default button.
NoteInfoAlert == NotePushAlert([kind |-> "info", note |-> <<>>, notes |-> <<>>])

\* The check button of a row: performAction('complete', item) of the latest
\* render.
NotePerformComplete ==
    /\ NoteListTouchable
    /\ \E i \in 1..Len(filteredNotes(notes, noteSearch)) :
          performAction(filteredNotes(notes, noteSearch)[i], notes)
    /\ UNCHANGED <<tz, notesLoad, notes, noteMoves, noteInputs, noteMounted, noteEditor, noteAuth,
                   noteSearch, activeTab, noteSliding, noteSharing, nextNoteId>>
    /\ UNCHANGED occVars
    /\ NoteTouch
    /\ UNCHANGED planUntouched
    /\ UNCHANGED remVars
    /\ UNCHANGED alarmVars
    /\ UNCHANGED voiceVars

\* A row is released more than 100 points to the right or to the left of
\* where it was: the 200 ms slide starts. Its end calls onSwipeRight or
\* onSwipeLeft of the render that mounted the row.
NoteSwipeRelease ==
    /\ NoteListTouchable
    /\ Len(noteSliding) < MaxSliding
    /\ \E id \in DOMAIN noteMounted, dir \in {"right", "left"} :
          noteSliding' = Append(noteSliding,
                                [list |-> "notes", dir |-> dir, item |-> noteMounted[id].item,
                                 notes |-> noteMounted[id].notes, live |-> TRUE])
    /\ UNCHANGED <<tz, notesLoad, notes, noteMoves, noteInputs, noteAlert, noteMounted, noteEditor,
                   noteAuth, noteSearch, activeTab, noteSharing, nextNoteId>>
    /\ UNCHANGED occVars
    /\ NoteTouch
    /\ UNCHANGED planUntouched
    /\ UNCHANGED remVars
    /\ UNCHANGED alarmVars
    /\ UNCHANGED voiceVars

\* The slide to the right ends: performAction('delete', item) of the render
\* that mounted the row, whatever is open by now.
NotePerformDelete ==
    /\ noteSliding # <<>>
    /\ Head(noteSliding).list = "notes"
    /\ Head(noteSliding).dir = "right"
    /\ performAction(Head(noteSliding).item, Head(noteSliding).notes)
    /\ noteSliding' = Tail(noteSliding)
    /\ UNCHANGED <<tz, notesLoad, notes, noteMoves, noteInputs, noteMounted, noteEditor, noteAuth,
                   noteSearch, activeTab, noteSharing, nextNoteId>>
    /\ UNCHANGED occVars
    /\ UNCHANGED planVars
    /\ UNCHANGED remVars
    /\ UNCHANGED alarmVars
    /\ UNCHANGED voiceVars

\* 'Cancel' on the Alert of performAction.
NoteAlertCancel ==
    /\ noteAlert # <<>>
    /\ NoteTopAlert.kind = "action"
    /\ NotePopAlert
    /\ UNCHANGED <<tz, notesLoad, notes, noteMoves, noteInputs, noteMounted, noteEditor, noteAuth,
                   noteSearch, activeTab, noteSliding, noteSharing, nextNoteId>>
    /\ UNCHANGED occVars
    /\ NoteTouch
    /\ UNCHANGED planUntouched
    /\ UNCHANGED remVars
    /\ UNCHANGED alarmVars
    /\ UNCHANGED voiceVars

\* 'OK' on an Alert that only tells something.
NoteAlertOk ==
    /\ noteAlert # <<>>
    /\ NoteTopAlert.kind = "info"
    /\ NotePopAlert
    /\ UNCHANGED <<tz, notesLoad, notes, noteMoves, noteInputs, noteMounted, noteEditor, noteAuth,
                   noteSearch, activeTab, noteSliding, noteSharing, nextNoteId>>
    /\ UNCHANGED occVars
    /\ NoteTouch
    /\ UNCHANGED planUntouched
    /\ UNCHANGED remVars
    /\ UNCHANGED alarmVars
    /\ UNCHANGED voiceVars

\* '... This Only' on the Alert of a recurring note: the captured note is
\* moved to its next occurrence and written over the captured list.
PerformThisOnly ==
    /\ noteAlert # <<>>
    /\ NoteTopAlert.kind = "action"
    /\ noteMoves < MaxMoves
    /\ \E note \in {NoteTopAlert.note[1]} : \E ns \in {NoteTopAlert.notes} :
          LET nextDate == calculateNextOccurrence(note.createdAt, note.recurrence, tz)
              updatedNote == [note EXCEPT !.createdAt = nextDate]
          IN  /\ note.recurrence # "none"
              /\ setNotes([k \in 1..Len(ns) |->
                              IF ns[k].id = note.id THEN updatedNote ELSE ns[k]])
    /\ NotePopAlert
    /\ noteMoves' = noteMoves + 1
    /\ UNCHANGED <<tz, notesLoad, noteInputs, noteEditor, noteAuth, noteSearch, activeTab, noteSliding,
                   noteSharing, nextNoteId>>
    /\ UNCHANGED occVars
    /\ NoteTouch
    /\ UNCHANGED planUntouched
    /\ UNCHANGED remVars
    /\ UNCHANGED alarmVars
    /\ UNCHANGED voiceVars

\* notes.filter(n => n.id !== note.id)
RemoveNote(ns, id) ==
    LET Other(n) == n.id # id
    IN  SelectSeq(ns, Other)

\* '... All Future' on the Alert of a recurring note: the captured list
\* without the note is written.
PerformAllFuture ==
    /\ noteAlert # <<>>
    /\ NoteTopAlert.kind = "action"
    /\ noteMoves < MaxMoves
    /\ noteMoves' = noteMoves + 1
    /\ NoteTopAlert.note[1].recurrence # "none"
    /\ setNotes(RemoveNote(NoteTopAlert.notes, NoteTopAlert.note[1].id))
    /\ NotePopAlert
    /\ UNCHANGED <<tz, notesLoad, noteInputs, noteEditor, noteAuth, noteSearch, activeTab, noteSliding,
                   noteSharing, nextNoteId>>
    /\ UNCHANGED occVars
    /\ NoteTouch
    /\ UNCHANGED planUntouched
    /\ UNCHANGED remVars
    /\ UNCHANGED alarmVars
    /\ UNCHANGED voiceVars

\* 'Yes, ...' on the Alert of a note that does not recur.
PerformYes ==
    /\ noteAlert # <<>>
    /\ NoteTopAlert.kind = "action"
    /\ noteMoves < MaxMoves
    /\ noteMoves' = noteMoves + 1
    /\ NoteTopAlert.note[1].recurrence = "none"
    /\ setNotes(RemoveNote(NoteTopAlert.notes, NoteTopAlert.note[1].id))
    /\ NotePopAlert
    /\ UNCHANGED <<tz, notesLoad, noteInputs, noteEditor, noteAuth, noteSearch, activeTab, noteSliding,
                   noteSharing, nextNoteId>>
    /\ UNCHANGED occVars
    /\ NoteTouch
    /\ UNCHANGED planUntouched
    /\ UNCHANGED remVars
    /\ UNCHANGED alarmVars
    /\ UNCHANGED voiceVars

\* The fields openEditor(note) sets: the note's id, title, content, lock,
\* PIN ('' without one) and rule.
EditorOf(note) ==
    [editingId |-> <<note.id>>, title |-> note.title, content |-> note.content,
     isLocked |-> note.isLocked,
     pin |-> IF note.password = <<>> THEN "" ELSE note.password[1],
     recurrence |-> note.recurrence]

\* openEditor(note): the editor modal opens on the note.
openEditor(note) == noteEditor' = <<EditorOf(note)>>

\* handleNotePress(note): a locked note opens the unlock dialog with an
\* empty PIN field, any other note the editor.
handleNotePress(note) ==
    IF note.isLocked
    THEN /\ noteAuth' = <<[pendingNote |-> note, authPin |-> ""]>>
         /\ noteEditor' = noteEditor
    ELSE /\ openEditor(note)
         /\ noteAuth' = noteAuth

\* A row is pressed: handleNotePress(item) of the latest render.
NotePress ==
    /\ NoteListTouchable
    /\ \E i \in 1..Len(filteredNotes(notes, noteSearch)) :
          handleNotePress(filteredNotes(notes, noteSearch)[i])
    /\ UNCHANGED <<tz, notesLoad, notes, noteMoves, noteInputs, noteAlert, noteMounted, noteSearch,
                   activeTab, noteSliding, noteSharing, nextNoteId>>
    /\ UNCHANGED occVars
    /\ NoteTouch
    /\ UNCHANGED planUntouched
    /\ UNCHANGED remVars
    /\ UNCHANGED alarmVars
    /\ UNCHANGED voiceVars

\* The slide to the left ends: handleNotePress(item) of the render that
\* mounted the row, whatever is open by now. Its setters belong to the
\* NotesTab that mounted the row and do nothing once that is unmounted.
NoteSwipeLeft ==
    /\ noteSliding # <<>>
    /\ Head(noteSliding).list = "notes"
    /\ Head(noteSliding).dir = "left"
    /\ IF Head(noteSliding).live
       THEN handleNotePress(Head(noteSliding).item)
       ELSE UNCHANGED <<noteEditor, noteAuth>>
    /\ noteSliding' = Tail(noteSliding)
    /\ UNCHANGED <<tz, notesLoad, notes, noteMoves, noteInputs, noteAlert, noteMounted, noteSearch,
                   activeTab, noteSharing, nextNoteId>>
    /\ UNCHANGED occVars
    /\ UNCHANGED planVars
    /\ UNCHANGED remVars
    /\ UNCHANGED alarmVars
    /\ UNCHANGED voiceVars

\* The PIN field of the unlock dialog is filled in.
NoteSetAuthPin ==
    /\ noteAuth # <<>>
    /\ noteAlert = <<>>
    /\ noteInputs < MaxInputs
    /\ noteInputs' = noteInputs + 1
    /\ \E p \in AuthPins : noteAuth' = <<[noteAuth[1] EXCEPT !.authPin = p]>>
    /\ UNCHANGED <<tz, notesLoad, notes, noteMoves, noteAlert, noteMounted, noteEditor, noteSearch,
                   activeTab, noteSliding, noteSharing, nextNoteId>>
    /\ UNCHANGED occVars
    /\ NoteTouch
    /\ UNCHANGED planUntouched
    /\ UNCHANGED remVars
    /\ UNCHANGED alarmVars
    /\ UNCHANGED voiceVars

\* 'Unlock': verifyPin. With the PIN of the pending note the dialog closes
\* and the editor opens on the pending note; otherwise an Alert tells so
\* and the PIN field is emptied.
verifyPin ==
    /\ noteAuth # <<>>
    /\ noteAlert = <<>>
    /\ IF <<noteAuth[1].authPin>> = noteAuth[1].pendingNote.password
       THEN /\ noteAuth' = <<>>
            /\ openEditor(noteAuth[1].pendingNote)
            /\ noteAlert' = noteAlert
       ELSE /\ NoteInfoAlert
            /\ noteAuth' = <<[noteAuth[1] EXCEPT !.authPin = ""]>>
            /\ noteEditor' = noteEditor
    /\ UNCHANGED <<tz, notesLoad, notes, noteMoves, noteInputs, noteMounted, noteSearch, activeTab,
                   noteSliding, noteSharing, nextNoteId>>
    /\ UNCHANGED occVars
    /\ NoteTouch
    /\ UNCHANGED planUntouched
    /\ UNCHANGED remVars
    /\ UNCHANGED alarmVars
    /\ UNCHANGED voiceVars

\* 'Cancel' in the unlock dialog.
AuthCancel ==
    /\ noteAuth # <<>>
    /\ noteAlert = <<>>
    /\ noteAuth' = <<>>
    /\ UNCHANGED <<tz, notesLoad, notes, noteMoves, noteInputs, noteAlert, noteMounted, noteEditor,
                   noteSearch, activeTab, noteSliding, noteSharing, nextNoteId>>
    /\ UNCHANGED occVars
    /\ NoteTouch
    /\ UNCHANGED planUntouched
    /\ UNCHANGED remVars
    /\ UNCHANGED alarmVars
    /\ UNCHANGED voiceVars

\* The add button: openEditor() with empty fields.
OpenEditorNew ==
    /\ NoteListTouchable
    /\ noteEditor' = <<[editingId |-> <<>>, title |-> "", content |-> <<>>,
                        isLocked |-> FALSE, pin |-> "", recurrence |-> "none"]>>
    /\ UNCHANGED <<tz, notesLoad, notes, noteMoves, noteInputs, noteAlert, noteMounted, noteAuth,
                   noteSearch, activeTab, noteSliding, noteSharing, nextNoteId>>
    /\ UNCHANGED occVars
    /\ NoteTouch
    /\ UNCHANGED planUntouched
    /\ UNCHANGED remVars
    /\ UNCHANGED alarmVars
    /\ UNCHANGED voiceVars

\* The editor is open and no Alert is over it.
NoteEditorTouchable ==
    /\ noteEditor # <<>>
    /\ noteAlert = <<>>

\* A field of the editor is changed to v.
NoteEditorInput(field, v) ==
    /\ NoteEditorTouchable
    /\ noteInputs < MaxInputs
    /\ noteInputs' = noteInputs + 1
    /\ noteEditor' = <<[noteEditor[1] EXCEPT ![field] = v]>>
    /\ UNCHANGED <<tz, notesLoad, notes, noteMoves, noteAlert, noteMounted, noteAuth, noteSearch,
                   activeTab, noteSliding, noteSharing, nextNoteId>>
    /\ UNCHANGED occVars
    /\ NoteTouch
    /\ UNCHANGED planUntouched
    /\ UNCHANGED remVars
    /\ UNCHANGED alarmVars
    /\ UNCHANGED voiceVars

\* The title field of the editor is changed.
NoteSetTitle ==
    /\ NoteEditorTouchable
    /\ \E t \in NoteTitles : t # noteEditor[1].title /\ NoteEditorInput("title", t)

\* The text field of the editor is changed.
NoteSetContent ==
    /\ NoteEditorTouchable
    /\ \E c \in NoteContents : <<c>> # noteEditor[1].content /\ NoteEditorInput("content", <<c>>)

\* A toolbar button: insertText appends its text to the content.
insertText ==
    /\ NoteEditorTouchable
    /\ \E c \in InsertedTexts : NoteEditorInput("content", Append(noteEditor[1].content, c))

\* toggleRecurrence: the rule of the editor moves on by one in
\* none, daily, weekly, monthly, yearly.
NextRecurrence(r) ==
    CASE r = "none"    -> "daily"
      [] r = "daily"   -> "weekly"
      [] r = "weekly"  -> "monthly"
      [] r = "monthly" -> "yearly"
      [] r = "yearly"  -> "none"

ToggleRecurrence ==
    /\ NoteEditorTouchable
    /\ NoteEditorInput("recurrence", NextRecurrence(noteEditor[1].recurrence))

\* The 'Password Protect' switch: setIsLocked.
NoteSetIsLocked ==
    /\ NoteEditorTouchable
    /\ noteEditor' = <<[noteEditor[1] EXCEPT !.isLocked = ~@]>>
    /\ UNCHANGED <<tz, notesLoad, notes, noteMoves, noteInputs, noteAlert, noteMounted, noteAuth,
                   noteSearch, activeTab, noteSliding, noteSharing, nextNoteId>>
    /\ UNCHANGED occVars
    /\ NoteTouch
    /\ UNCHANGED planUntouched
    /\ UNCHANGED remVars
    /\ UNCHANGED alarmVars
    /\ UNCHANGED voiceVars

\* The PIN field, shown while the switch is on.
NoteSetPin ==
    /\ NoteEditorTouchable
    /\ noteEditor[1].isLocked
    /\ \E p \in NotePins : p # noteEditor[1].pin /\ NoteEditorInput("pin", p)

\* 'Cancel' in the editor: setModalVisible(false).
CloseNoteEditor ==
    /\ NoteEditorTouchable
    /\ noteEditor' = <<>>
    /\ UNCHANGED <<tz, notesLoad, notes, noteMoves, noteInputs, noteAlert, noteMounted, noteAuth,
                   noteSearch, activeTab, noteSliding, noteSharing, nextNoteId>>
    /\ UNCHANGED occVars
    /\ NoteTouch
    /\ UNCHANGED planUntouched
    /\ UNCHANGED remVars
    /\ UNCHANGED alarmVars
    /\ UNCHANGED voiceVars

\* pin.length !== 4 || isNaN(Number(pin)) for the PINs the field can hold
\* here ('' and four digits).
InvalidPin(pin) == pin = ""

\* 'Done' in the editor: saveNote. Without a title, or locked without a
\* 4-digit PIN, an Alert tells so and nothing is saved. Otherwise an edited
\* note keeps the createdAt it has in the list; a new note gets the next id
\* and the current instant and goes to the head of the list; the editor
\* closes.
saveNote ==
    /\ NoteEditorTouchable
    /\ \E ed \in {noteEditor[1]} :
          IF ed.title = "" \/ (ed.isLocked /\ InvalidPin(ed.pin))
          THEN /\ NoteInfoAlert
               /\ UNCHANGED <<notes, noteMoves, noteMounted, noteEditor, nextNoteId>>
          ELSE /\ noteMoves < MaxMoves
               /\ noteMoves' = noteMoves + 1
               /\ noteAlert' = noteAlert
               /\ noteEditor' = <<>>
               /\ \E t \in NoteClock(tz) :
                     IF ed.editingId # <<>>
                     THEN LET found == {k \in 1..Len(notes) : notes[k].id = ed.editingId[1]}
                              createdAt ==
                                  IF found # {}
                                  THEN notes[CHOOSE k \in found : \A j \in found : k <= j].createdAt
                                  ELSE toISOString(t)
                              newNote == Note(ed.editingId[1], ed.title, ed.content, createdAt,
                                              ed.isLocked,
                                              IF ed.isLocked THEN <<ed.pin>> ELSE <<>>,
                                              ed.recurrence)
                          IN  /\ setNotes([k \in 1..Len(notes) |->
                                              IF notes[k].id = ed.editingId[1] THEN newNote
                                              ELSE notes[k]])
                              /\ nextNoteId' = nextNoteId
                     ELSE /\ Len(notes) < MaxNotes
                          /\ setNotes(<<Note(nextNoteId, ed.title, ed.content, toISOString(t),
                                             ed.isLocked,
                                             IF ed.isLocked THEN <<ed.pin>> ELSE <<>>,
                                             ed.recurrence)>> \o notes)
                          /\ nextNoteId' = nextNoteId + 1
    /\ UNCHANGED <<tz, notesLoad, noteInputs, noteAuth, noteSearch, activeTab, noteSliding, noteSharing>>
    /\ UNCHANGED occVars
    /\ NoteTouch
    /\ UNCHANGED planUntouched
    /\ UNCHANGED remVars
    /\ UNCHANGED alarmVars
    /\ UNCHANGED voiceVars

\* The search box is changed: setSearch. The rows of the notes that match
\* stay or mount, the others unmount.
NoteSetSearch ==
    /\ NoteListTouchable
    /\ noteInputs < MaxInputs
    /\ noteInputs' = noteInputs + 1
    /\ \E s \in NoteSearches :
          /\ s # noteSearch
          /\ noteSearch' = s
          /\ noteMounted' = NoteRemount(noteMounted, filteredNotes(notes, s), notes)
    /\ UNCHANGED <<tz, notesLoad, notes, noteMoves, noteAlert, noteEditor, noteAuth, activeTab,
                   noteSliding, noteSharing, nextNoteId>>
    /\ UNCHANGED occVars
    /\ NoteTouch
    /\ UNCHANGED planUntouched
    /\ UNCHANGED remVars
    /\ UNCHANGED alarmVars
    /\ UNCHANGED voiceVars

\* The share button of a row: shareNote(item) starts printing the note to a
\* file and waits.
shareNote ==
    /\ NoteListTouchable
    /\ filteredNotes(notes, noteSearch) # <<>>
    /\ noteSharing < MaxSharing
    /\ noteSharing' = noteSharing + 1
    /\ UNCHANGED <<tz, notesLoad, notes, noteMoves, noteInputs, noteAlert, noteMounted, noteEditor,
                   noteAuth, noteSearch, activeTab, noteSliding, nextNoteId>>
    /\ UNCHANGED occVars
    /\ NoteTouch
    /\ UNCHANGED planUntouched
    /\ UNCHANGED remVars
    /\ UNCHANGED alarmVars
    /\ UNCHANGED voiceVars

\* Printing and sharing are over: nothing more happens, or one of them
\* failed and the catch block opens an Alert.
NoteShareEnd ==
    /\ noteSharing > 0
    /\ noteSharing' = noteSharing - 1
    /\ \E failed \in BOOLEAN :
          IF failed THEN NoteInfoAlert ELSE noteAlert' = noteAlert
    /\ UNCHANGED <<tz, notesLoad, notes, noteMoves, noteInputs, noteMounted, noteEditor, noteAuth,
                   noteSearch, activeTab, noteSliding, nextNoteId>>
    /\ UNCHANGED occVars
    /\ UNCHANGED planVars
    /\ UNCHANGED remVars
    /\ UNCHANGED alarmVars
    /\ UNCHANGED voiceVars

\* A tab button: setActiveTab. Leaving the Notes tab or the Voice tab
\* unmounts the component with its rows and its state; the slides and the
\* handlers under way lose the component their setters belong to. Coming to
\* the Notes tab mounts NotesTab anew: the search box is empty and every row
\* mounts; coming to the Voice tab mounts VoiceTab and the rows of the
\* recordings.
SetActiveTab ==
    /\ noteAlert = <<>>
    /\ noteEditor = <<>>
    /\ noteAuth = <<>>
    /\ voiceSave = <<>>
    /\ voiceUnlock = <<>>
    /\ voiceRename = <<>>
    /\ \E t \in Tabs :
          /\ t # activeTab
          /\ activeTab' = t
          /\ noteMounted' = IF t = "notes" THEN NoteRemount(<<>>, notes, notes) ELSE <<>>
          /\ voiceMounted' = IF t = "voice" THEN NoteRemount(<<>>, voiceNotes, voiceNotes)
                             ELSE <<>>
    /\ noteSliding' = [k \in 1..Len(noteSliding) |-> [noteSliding[k] EXCEPT !.live = FALSE]]
    /\ voiceCalls' = [k \in 1..Len(voiceCalls) |-> [voiceCalls[k] EXCEPT !.live = FALSE]]
    /\ noteSearch' = ""
    /\ UNCHANGED <<tz, notesLoad, notes, noteMoves, noteInputs, noteAlert, noteEditor, noteAuth,
                   noteSharing, nextNoteId>>
    /\ UNCHANGED <<recording, voiceNotes, voiceSave, voiceUnlock, voiceRename>>
    /\ UNCHANGED occVars
    /\ NoteTouch
    /\ UNCHANGED planUntouched
    /\ UNCHANGED remVars
    /\ UNCHANGED alarmVars

(***************************************************************************)
(* Notes screen: the Voice tab (VoiceTab) and the recording functions of   *)
(* the notebook                                                            *)
(***************************************************************************)
\* The handlers of the Voice tab that may wait on an answer (of the
\* recorder, the player or the file system) at one time.
MaxVoiceCalls == 1

\* A handler that waits: which one it is ("start": startGlobalRecording,
\* "stop": handleStopRecording, "save": finalizeSave, "play": playAudio),
\* the await it is at, whether the VoiceTab it belongs to is still mounted,
\* and what it closed over: the fields of the save modal and the list of
\* recordings of the render in which it was called.
VoiceCall(kind, stage, fields, list) ==
    [kind |-> kind, stage |-> stage, live |-> TRUE, fields |-> fields, list |-> list]

\* What no handler of the Voice tab touches.
aroundVoice == <<tz, notes, notesLoad, noteMounted, noteEditor, noteAuth, noteSearch, activeTab,
                 noteSharing>>

\* Nothing is over the Voice tab: no Alert and none of its three modals.
VoiceTouchable ==
    /\ activeTab = "voice"
    /\ noteAlert = <<>>
    /\ voiceSave = <<>>
    /\ voiceUnlock = <<>>
    /\ voiceRename = <<>>

\* The record button while nothing is recorded: startGlobalRecording asks
\* for the permission and waits.
VoiceStartRecording ==
    /\ VoiceTouchable
    /\ ~recording
    /\ Len(voiceCalls) < MaxVoiceCalls
    /\ voiceCalls' = Append(voiceCalls, VoiceCall("start", "permission", <<>>, <<>>))
    /\ UNCHANGED <<noteMoves, noteInputs, noteAlert, noteSliding, nextNoteId>>
    /\ UNCHANGED <<recording, voiceNotes, voiceSave, voiceUnlock, voiceRename, voiceMounted>>
    /\ UNCHANGED aroundVoice
    /\ UNCHANGED occVars
    /\ NoteTouch
    /\ UNCHANGED planUntouched
    /\ UNCHANGED remVars
    /\ UNCHANGED alarmVars

\* requestPermissionsAsync has answered. Granted: startGlobalRecording goes
\* on to set up the recorder. Not granted: an Alert tells so. Rejected: the
\* catch block opens an Alert.
VoicePermissionAnswered ==
    /\ \E k \in 1..Len(voiceCalls) :
          /\ voiceCalls[k].kind = "start"
          /\ voiceCalls[k].stage = "permission"
          /\ \E answer \in {"granted", "denied", "rejected"} :
                IF answer = "granted"
                THEN /\ voiceCalls' = [voiceCalls EXCEPT ![k].stage = "create"]
                     /\ noteAlert' = noteAlert
                ELSE /\ voiceCalls' = Drop(voiceCalls, k)
                     /\ NoteInfoAlert
    /\ UNCHANGED <<noteMoves, noteInputs, noteSliding, nextNoteId>>
    /\ UNCHANGED <<recording, voiceNotes, voiceSave, voiceUnlock, voiceRename, voiceMounted>>
    /\ UNCHANGED aroundVoice
    /\ UNCHANGED occVars
    /\ UNCHANGED planVars
    /\ UNCHANGED remVars
    /\ UNCHANGED alarmVars

\* setAudioModeAsync, Recording.createAsync and setProgressUpdateInterval
\* have answered: setActiveRecording(recording), or one of them was rejected
\* and the catch block opens an Alert.
VoiceRecordingCreated ==
    /\ \E k \in 1..Len(voiceCalls) :
          /\ voiceCalls[k].kind = "start"
          /\ voiceCalls[k].stage = "create"
          /\ voiceCalls' = Drop(voiceCalls, k)
    /\ \E created \in BOOLEAN :
          IF created
          THEN /\ recording' = TRUE
               /\ noteAlert' = noteAlert
          ELSE /\ recording' = recording
               /\ NoteInfoAlert
    /\ UNCHANGED <<noteMoves, noteInputs, noteSliding, nextNoteId>>
    /\ UNCHANGED <<voiceNotes, voiceSave, voiceUnlock, voiceRename, voiceMounted>>
    /\ UNCHANGED aroundVoice
    /\ UNCHANGED occVars
    /\ UNCHANGED planVars
    /\ UNCHANGED remVars
    /\ UNCHANGED alarmVars

\* The record button while a recording is under way: handleStopRecording
\* calls stopGlobalRecording, which waits on stopAndUnloadAsync.
VoiceStopRecording ==
    /\ VoiceTouchable
    /\ recording
    /\ Len(voiceCalls) < MaxVoiceCalls
    /\ voiceCalls' = Append(voiceCalls, VoiceCall("stop", "stop", <<>>, <<>>))
    /\ UNCHANGED <<noteMoves, noteInputs, noteAlert, noteSliding, nextNoteId>>
    /\ UNCHANGED <<recording, voiceNotes, voiceSave, voiceUnlock, voiceRename, voiceMounted>>
    /\ UNCHANGED aroundVoice
    /\ UNCHANGED occVars
    /\ NoteTouch
    /\ UNCHANGED planUntouched
    /\ UNCHANGED remVars
    /\ UNCHANGED alarmVars

\* stopAndUnloadAsync has answered. Resolved: setActiveRecording(null), and
\* handleStopRecording opens the save modal with the lock off and no PIN
\* (its setters do nothing once VoiceTab is unmounted). Rejected:
\* stopGlobalRecording returns null and nothing changes.
VoiceRecordingStopped ==
    /\ \E k \in 1..Len(voiceCalls) :
          /\ voiceCalls[k].kind = "stop"
          /\ voiceCalls' = Drop(voiceCalls, k)
          /\ \E stopped \in BOOLEAN :
                IF stopped
                THEN /\ recording' = FALSE
                     /\ voiceSave' = IF voiceCalls[k].live
                                     THEN <<[saveLocked |-> FALSE, savePin |-> ""]>>
                                     ELSE voiceSave
                ELSE UNCHANGED <<recording, voiceSave>>
    /\ UNCHANGED <<noteMoves, noteInputs, noteAlert, noteSliding, nextNoteId>>
    /\ UNCHANGED <<voiceNotes, voiceUnlock, voiceRename, voiceMounted>>
    /\ UNCHANGED aroundVoice
    /\ UNCHANGED occVars
    /\ UNCHANGED planVars
    /\ UNCHANGED remVars
    /\ UNCHANGED alarmVars

\* The 'Lock?' switch of the save modal: setSaveLocked.
VoiceSetSaveLocked ==
    /\ voiceSave # <<>>
    /\ noteAlert = <<>>
    /\ voiceSave' = <<[voiceSave[1] EXCEPT !.saveLocked = ~@]>>
    /\ UNCHANGED <<noteMoves, noteInputs, noteAlert, noteSliding, nextNoteId>>
    /\ UNCHANGED <<recording, voiceNotes, voiceCalls, voiceUnlock, voiceRename, voiceMounted>>
    /\ UNCHANGED aroundVoice
    /\ UNCHANGED occVars
    /\ NoteTouch
    /\ UNCHANGED planUntouched
    /\ UNCHANGED remVars
    /\ UNCHANGED alarmVars

\* The PIN field of the save modal, shown while the switch is on.
VoiceSetSavePin ==
    /\ voiceSave # <<>>
    /\ noteAlert = <<>>
    /\ voiceSave[1].saveLocked
    /\ noteInputs < MaxInputs
    /\ noteInputs' = noteInputs + 1
    /\ \E p \in NotePins :
          /\ p # voiceSave[1].savePin
          /\ voiceSave' = <<[voiceSave[1] EXCEPT !.savePin = p]>>
    /\ UNCHANGED <<noteMoves, noteAlert, noteSliding, nextNoteId>>
    /\ UNCHANGED <<recording, voiceNotes, voiceCalls, voiceUnlock, voiceRename, voiceMounted>>
    /\ UNCHANGED aroundVoice
    /\ UNCHANGED occVars
    /\ NoteTouch
    /\ UNCHANGED planUntouched
    /\ UNCHANGED remVars
    /\ UNCHANGED alarmVars

\* 'Discard' in the save modal: setSaveModalVisible(false).
VoiceDiscard ==
    /\ voiceSave # <<>>
    /\ noteAlert = <<>>
    /\ voiceSave' = <<>>
    /\ UNCHANGED <<noteMoves, noteInputs, noteAlert, noteSliding, nextNoteId>>
    /\ UNCHANGED <<recording, voiceNotes, voiceCalls, voiceUnlock, voiceRename, voiceMounted>>
    /\ UNCHANGED aroundVoice
    /\ UNCHANGED occVars
    /\ NoteTouch
    /\ UNCHANGED planUntouched
    /\ UNCHANGED remVars
    /\ UNCHANGED alarmVars

\* 'Save' in the save modal: finalizeSave. Locked without a 4-digit PIN an
\* Alert tells so and nothing is saved. Otherwise it waits on
\* moveFileToPermanentStorage, holding the fields and the list of recordings
\* of this render.
finalizeSave ==
    /\ voiceSave # <<>>
    /\ noteAlert = <<>>
    /\ IF voiceSave[1].saveLocked /\ InvalidPin(voiceSave[1].savePin)
       THEN /\ NoteInfoAlert
            /\ voiceCalls' = voiceCalls
       ELSE /\ Len(voiceCalls) < MaxVoiceCalls
            /\ voiceCalls' = Append(voiceCalls, VoiceCall("save", "move", voiceSave, voiceNotes))
            /\ noteAlert' = noteAlert
    /\ UNCHANGED <<noteMoves, noteInputs, noteSliding, nextNoteId>>
    /\ UNCHANGED <<recording, voiceNotes, voiceSave, voiceUnlock, voiceRename, voiceMounted>>
    /\ UNCHANGED aroundVoice
    /\ UNCHANGED occVars
    /\ NoteTouch
    /\ UNCHANGED planUntouched
    /\ UNCHANGED remVars
    /\ UNCHANGED alarmVars

\* moveFileToPermanentStorage has returned (the new path, or the old one
\* when moving failed): the new recording gets the next id and goes to the
\* head of the list finalizeSave closed over, and the save modal closes.
VoiceSaveMoved ==
    /\ noteMoves < MaxMoves
    /\ noteMoves' = noteMoves + 1
    /\ \E k \in 1..Len(voiceCalls) :
          /\ voiceCalls[k].kind = "save"
          /\ Len(voiceCalls[k].list) < MaxNotes
          /\ \E f \in {voiceCalls[k].fields[1]} :
                setVoiceNotes(<<VoiceNote(nextNoteId, f.saveLocked,
                                          IF f.saveLocked THEN <<f.savePin>> ELSE <<>>)>>
                              \o voiceCalls[k].list)
          /\ voiceSave' = IF voiceCalls[k].live THEN <<>> ELSE voiceSave
          /\ voiceCalls' = Drop(voiceCalls, k)
    /\ nextNoteId' = nextNoteId + 1
    /\ UNCHANGED <<noteInputs, noteAlert, noteSliding>>
    /\ UNCHANGED <<recording, voiceUnlock, voiceRename>>
    /\ UNCHANGED aroundVoice
    /\ UNCHANGED occVars
    /\ UNCHANGED planVars
    /\ UNCHANGED remVars
    /\ UNCHANGED alarmVars

\* playAudio(item) up to its first await: it waits on the player (on
\* stopAsync when the item is playing, else on unloadAsync, setAudioModeAsync,
\* Sound.createAsync and playAsync).
playAudio(item) ==
    /\ Len(voiceCalls) < MaxVoiceCalls
    /\ voiceCalls' = Append(voiceCalls, VoiceCall("play", "sound", <<item>>, <<>>))

\* The play button of a row: handlePlayPress(item) of the latest render. A
\* locked recording opens the unlock dialog with an empty PIN field, any
\* other is played.
handlePlayPress ==
    /\ VoiceTouchable
    /\ \E i \in 1..Len(voiceNotes) :
          IF voiceNotes[i].isLocked
          THEN /\ voiceUnlock' = <<[noteToPlay |-> voiceNotes[i], unlockPin |-> ""]>>
               /\ voiceCalls' = voiceCalls
          ELSE /\ playAudio(voiceNotes[i])
               /\ voiceUnlock' = voiceUnlock
    /\ UNCHANGED <<noteMoves, noteInputs, noteAlert, noteSliding, nextNoteId>>
    /\ UNCHANGED <<recording, voiceNotes, voiceSave, voiceRename, voiceMounted>>
    /\ UNCHANGED aroundVoice
    /\ UNCHANGED occVars
    /\ NoteTouch
    /\ UNCHANGED planUntouched
    /\ UNCHANGED remVars
    /\ UNCHANGED alarmVars

\* The player has answered playAudio: the recording plays or stops, or a
\* call inside the try block was rejected and the catch block opens an
\* Alert.
VoicePlayAnswered ==
    /\ \E k \in 1..Len(voiceCalls) :
          /\ voiceCalls[k].kind = "play"
          /\ voiceCalls' = Drop(voiceCalls, k)
    /\ \E failed \in BOOLEAN :
          IF failed THEN NoteInfoAlert ELSE noteAlert' = noteAlert
    /\ UNCHANGED <<noteMoves, noteInputs, noteSliding, nextNoteId>>
    /\ UNCHANGED <<recording, voiceNotes, voiceSave, voiceUnlock, voiceRename, voiceMounted>>
    /\ UNCHANGED aroundVoice
    /\ UNCHANGED occVars
    /\ UNCHANGED planVars
    /\ UNCHANGED remVars
    /\ UNCHANGED alarmVars

\* The PIN field of the unlock dialog of the Voice tab is filled in.
VoiceSetUnlockPin ==
    /\ voiceUnlock # <<>>
    /\ noteAlert = <<>>
    /\ noteInputs < MaxInputs
    /\ noteInputs' = noteInputs + 1
    /\ \E p \in AuthPins : voiceUnlock' = <<[voiceUnlock[1] EXCEPT !.unlockPin = p]>>
    /\ UNCHANGED <<noteMoves, noteAlert, noteSliding, nextNoteId>>
    /\ UNCHANGED <<recording, voiceNotes, voiceCalls, voiceSave, voiceRename, voiceMounted>>
    /\ UNCHANGED aroundVoice
    /\ UNCHANGED occVars
    /\ NoteTouch
    /\ UNCHANGED planUntouched
    /\ UNCHANGED remVars
    /\ UNCHANGED alarmVars

\* 'Play' in the unlock dialog: verifyUnlock. With the PIN of the recording
\* the dialog closes and the recording is played; otherwise an Alert tells
\* so.
verifyUnlock ==
    /\ voiceUnlock # <<>>
    /\ noteAlert = <<>>
    /\ IF <<voiceUnlock[1].unlockPin>> = voiceUnlock[1].noteToPlay.password
       THEN /\ voiceUnlock' = <<>>
            /\ playAudio(voiceUnlock[1].noteToPlay)
            /\ noteAlert' = noteAlert
       ELSE /\ NoteInfoAlert
            /\ UNCHANGED <<voiceUnlock, voiceCalls>>
    /\ UNCHANGED <<noteMoves, noteInputs, noteSliding, nextNoteId>>
    /\ UNCHANGED <<recording, voiceNotes, voiceSave, voiceRename, voiceMounted>>
    /\ UNCHANGED aroundVoice
    /\ UNCHANGED occVars
    /\ NoteTouch
    /\ UNCHANGED planUntouched
    /\ UNCHANGED remVars
    /\ UNCHANGED alarmVars

\* 'Cancel' in the unlock dialog: setUnlockVisible(false).
VoiceUnlockCancel ==
    /\ voiceUnlock # <<>>
    /\ noteAlert = <<>>
    /\ voiceUnlock' = <<>>
    /\ UNCHANGED <<noteMoves, noteInputs, noteAlert, noteSliding, nextNoteId>>
    /\ UNCHANGED <<recording, voiceNotes, voiceCalls, voiceSave, voiceRename, voiceMounted>>
    /\ UNCHANGED aroundVoice
    /\ UNCHANGED occVars
    /\ NoteTouch
    /\ UNCHANGED planUntouched
    /\ UNCHANGED remVars
    /\ UNCHANGED alarmVars

\* A row of a recording is released more than 100 points to the right or to
\* the left of where it was: the 200 ms slide starts. Its end calls
\* onSwipeRight or onSwipeLeft of the render that mounted the row.
VoiceSwipeRelease ==
    /\ VoiceTouchable
    /\ Len(noteSliding) < MaxSliding
    /\ \E id \in DOMAIN voiceMounted, dir \in {"right", "left"} :
          noteSliding' = Append(noteSliding,
                                [list |-> "voice", dir |-> dir, item |-> voiceMounted[id].item,
                                 notes |-> voiceMounted[id].notes, live |-> TRUE])
    /\ UNCHANGED <<noteMoves, noteInputs, noteAlert, nextNoteId>>
    /\ UNCHANGED voiceVars
    /\ UNCHANGED aroundVoice
    /\ UNCHANGED occVars
    /\ NoteTouch
    /\ UNCHANGED planUntouched
    /\ UNCHANGED remVars
    /\ UNCHANGED alarmVars

\* The slide to the right ends: setVoiceNotes of the list of the render
\* that mounted the row, without the row's recording.
VoiceSwipeRight ==
    /\ noteSliding # <<>>
    /\ Head(noteSliding).list = "voice"
    /\ Head(noteSliding).dir = "right"
    /\ noteMoves < MaxMoves
    /\ noteMoves' = noteMoves + 1
    /\ setVoiceNotes(RemoveNote(Head(noteSliding).notes, Head(noteSliding).item.id))
    /\ noteSliding' = Tail(noteSliding)
    /\ UNCHANGED <<noteInputs, noteAlert, nextNoteId>>
    /\ UNCHANGED <<recording, voiceCalls, voiceSave, voiceUnlock, voiceRename>>
    /\ UNCHANGED aroundVoice
    /\ UNCHANGED occVars
    /\ UNCHANGED planVars
    /\ UNCHANGED remVars
    /\ UNCHANGED alarmVars

\* The slide to the left ends: the rename dialog opens on the row's
\* recording. Its setters belong to the VoiceTab that mounted the row and do
\* nothing once that is unmounted.
VoiceSwipeLeft ==
    /\ noteSliding # <<>>
    /\ Head(noteSliding).list = "voice"
    /\ Head(noteSliding).dir = "left"
    /\ voiceRename' = IF Head(noteSliding).live THEN <<Head(noteSliding).item.id>>
                      ELSE voiceRename
    /\ noteSliding' = Tail(noteSliding)
    /\ UNCHANGED <<noteMoves, noteInputs, noteAlert, nextNoteId>>
    /\ UNCHANGED <<recording, voiceNotes, voiceCalls, voiceSave, voiceUnlock, voiceMounted>>
    /\ UNCHANGED aroundVoice
    /\ UNCHANGED occVars
    /\ UNCHANGED planVars
    /\ UNCHANGED remVars
    /\ UNCHANGED alarmVars

\* 'Rename' in the rename dialog: setVoiceNotes of the list of this render
\* with the new name (a name is no part of a recording here, so the list is
\* written as it is), and the dialog closes.
VoiceRename ==
    /\ voiceRename # <<>>
    /\ noteAlert = <<>>
    /\ noteMoves < MaxMoves
    /\ noteMoves' = noteMoves + 1
    /\ setVoiceNotes(voiceNotes)
    /\ voiceRename' = <<>>
    /\ UNCHANGED <<noteInputs, noteAlert, noteSliding, nextNoteId>>
    /\ UNCHANGED <<recording, voiceCalls, voiceSave, voiceUnlock>>
    /\ UNCHANGED aroundVoice
    /\ UNCHANGED occVars
    /\ NoteTouch
    /\ UNCHANGED planUntouched
    /\ UNCHANGED remVars
    /\ UNCHANGED alarmVars

\* 'Cancel' in the rename dialog: setRenameVisible(false).
VoiceRenameCancel ==
    /\ voiceRename # <<>>
    /\ noteAlert = <<>>
    /\ voiceRename' = <<>>
    /\ UNCHANGED <<noteMoves, noteInputs, noteAlert, noteSliding, nextNoteId>>
    /\ UNCHANGED <<recording, voiceNotes, voiceCalls, voiceSave, voiceUnlock, voiceMounted>>
    /\ UNCHANGED aroundVoice
    /\ UNCHANGED occVars
    /\ NoteTouch
    /\ UNCHANGED planUntouched
    /\ UNCHANGED remVars
    /\ UNCHANGED alarmVars

NotesNext ==
    \/ NotesLoaded
    \/ NotePerformComplete
    \/ NoteSwipeRelease
    \/ NotePerformDelete
    \/ NoteAlertCancel
    \/ NoteAlertOk
    \/ PerformThisOnly
    \/ PerformAllFuture
    \/ PerformYes
    \/ NotePress
    \/ NoteSwipeLeft
    \/ NoteSetAuthPin
    \/ verifyPin
    \/ AuthCancel
    \/ OpenEditorNew
    \/ NoteSetTitle
    \/ NoteSetContent
    \/ insertText
    \/ ToggleRecurrence
    \/ NoteSetIsLocked
    \/ NoteSetPin
    \/ CloseNoteEditor
    \/ saveNote
    \/ NoteSetSearch
    \/ shareNote
    \/ NoteShareEnd
    \/ SetActiveTab
    \/ VoiceStartRecording
    \/ VoicePermissionAnswered
    \/ VoiceRecordingCreated
    \/ VoiceStopRecording
    \/ VoiceRecordingStopped
    \/ VoiceSetSaveLocked
    \/ VoiceSetSavePin
    \/ VoiceDiscard
    \/ finalizeSave
    \/ VoiceSaveMoved
    \/ handlePlayPress
    \/ VoicePlayAnswered
    \/ VoiceSetUnlockPin
    \/ verifyUnlock
    \/ VoiceUnlockCancel
    \/ VoiceSwipeRelease
    \/ VoiceSwipeRight
    \/ VoiceSwipeLeft
    \/ VoiceRename
    \/ VoiceRenameCancel

SpecNotes == NotesInit /\ [][NotesNext]_vars

(***************************************************************************)
(* Alarm handler (TaskAlarmHandler): the full-screen alarm and its swipes  *)
(***************************************************************************)
\* The handlers of the alarm screen that may wait on the notification
\* centre at one time, and the slides that may be under way at one time.
MaxHandling == 2
MaxSlides == 2
\* The times the user touches the alarm screen or a notification in the
\* tray in one run of the app.
MaxAlarmTouches == 3

\* The ActiveAlarm object made from a notification.
ActiveAlarm(n) == [notificationId |-> n.id, taskId |-> n.taskId]

\* Variant: closing the alarm leaves the vibration running.
SetActiveAlarm_NoCleanup(a) ==
    /\ activeAlarm' = a
    /\ activeAlarmRef' = a
    /\ vibrating' = IF a = <<>> THEN vibrating ELSE TRUE

\* setActiveAlarm(a) and the effects of the render it causes: the ref is
\* synced, the vibration effect's cleanup cancels the vibration, and the
\* effect starts it again when there is an alarm. Setting null over null
\* causes no render.
SetActiveAlarm(a) ==
    /\ activeAlarm' = a
    /\ activeAlarmRef' = a
    /\ vibrating' = IF a = <<>> /\ activeAlarm = <<>> THEN vibrating ELSE a # <<>>

\* setSnoozeMinutes(m) and the effect that syncs the ref.
SetSnoozeMinutes(m) ==
    /\ snoozeMinutes' = m
    /\ snoozeMinutesRef' = m

\* dismissNotificationAsync(notificationId) when it resolves: the
\* notification is taken from the delivered ones.
dismissNotification(shown, notificationId) == {n \in shown : n.id # notificationId}

\* A handler of the alarm screen that waits on the notification centre:
\* which handler it is ("snooze" and "stop" of the response listener,
\* "executeSnooze", "executeClose"), the await it is at ("dismiss":
\* dismissNotificationAsync, "schedule": scheduleNotificationAsync), the
\* alarm it acts on, the minutes it snoozes by, and whether the dismissal
\* resolved.
Handler(kind, stage, alarm, minutes, dismissed) ==
    [kind |-> kind, stage |-> stage, alarm |-> alarm, minutes |-> minutes,
     dismissed |-> dismissed]

\* The user touches the alarm screen or a notification in the tray.
AlarmTouch ==
    /\ touches < MaxAlarmTouches
    /\ touches' = touches + 1

\* A handler calls dismissNotificationAsync for its alarm's notification and
\* waits for the answer: the call resolves and the notification is gone from
\* the delivered ones, or it rejects and nothing changes.
StartHandler(kind, alarm, minutes) ==
    /\ Len(handling) < MaxHandling
    /\ \E dismissed \in BOOLEAN :
          /\ presented' = IF dismissed
                          THEN dismissNotification(presented, alarm.notificationId)
                          ELSE presented
          /\ handling' = Append(handling, Handler(kind, "dismiss", alarm, minutes, dismissed))

\* The clock reaches the trigger date of the next scheduled notification.
\* Every notification that was due before has been delivered.
TriggerArrives ==
    /\ \A o \in scheduled : o.date > clock
    /\ \E n \in scheduled :
          /\ \A o \in scheduled : n.date <= o.date
          /\ clock' = n.date
    /\ UNCHANGED <<tz, occVars, planVars, noteVars, scheduled, presented, nextNotif, alarmVars>>

\* A scheduled notification whose trigger date has come is delivered while
\* the app is in the foreground: the received listener resets the snooze
\* choice and shows the alarm.
NotificationReceived ==
    /\ \E n \in scheduled :
          /\ n.date <= clock
          /\ scheduled' = scheduled \ {n}
          /\ presented' = presented \cup {n}
          /\ SetActiveAlarm(<<ActiveAlarm(n)>>)
    /\ SetSnoozeMinutes(5)
    /\ UNCHANGED <<tz, clock, occVars, planVars, noteVars, nextNotif, platform, slide, handling>>

\* One of the two snooze duration buttons of the alarm screen.
ChooseSnooze ==
    /\ activeAlarm # <<>>
    /\ AlarmTouch
    /\ \E m \in {5, 30} : SetSnoozeMinutes(m)
    /\ UNCHANGED <<tz, clock, platform, activeAlarm, activeAlarmRef, vibrating, slide, handling>>
    /\ UNCHANGED <<scheduled, presented, nextNotif>>
    /\ UNCHANGED <<tasks, stored, planLoad, nextId, selectedDate, showCompleted, now, alert,
                   alertsUnder, mounted, editingTask, modalVisible, saving, closing, sliding>>
    /\ UNCHANGED <<homeVars, occVars, noteVars>>

\* onPanResponderRelease past the threshold, to the right (snooze) or to the
\* left (close), whether or not an earlier slide is still under way:
\* Vibration.cancel() and the 200 ms slide begins. On iOS the interval of
\* the vibration effect keeps vibrating. The slide remembers its direction;
\* shown is the alarm on screen at the release.
SwipeRelease ==
    /\ activeAlarm # <<>>
    /\ AlarmTouch
    /\ Len(slide) < MaxSlides
    /\ \E to \in {"snooze", "close"} :
          slide' = Append(slide, [to |-> to, shown |-> activeAlarm[1]])
    /\ vibrating' = IF platform = "android" THEN FALSE ELSE vibrating
    /\ UNCHANGED <<tz, clock, platform, activeAlarm, activeAlarmRef, snoozeMinutes,
                   snoozeMinutesRef, handling>>
    /\ UNCHANGED <<scheduled, presented, nextNotif>>
    /\ UNCHANGED <<tasks, stored, planLoad, nextId, selectedDate, showCompleted, now, alert,
                   alertsUnder, mounted, editingTask, modalVisible, saving, closing, sliding>>
    /\ UNCHANGED <<homeVars, occVars, noteVars>>

\* The oldest slide ends and its callback runs executeSnooze or executeClose
\* on activeAlarmRef.current: nothing for null; otherwise the handler calls
\* dismissNotificationAsync (executeSnooze inside performSnooze, with the
\* minutes of the ref) and waits.
SlideEnd ==
    /\ slide # <<>>
    /\ slide' = Tail(slide)
    /\ IF activeAlarmRef = <<>>
       THEN UNCHANGED <<presented, handling>>
       ELSE IF Head(slide).to = "snooze"
            THEN StartHandler("executeSnooze", activeAlarmRef[1], snoozeMinutesRef)
            ELSE StartHandler("executeClose", activeAlarmRef[1], 0)
    /\ UNCHANGED <<tz, clock, platform, activeAlarm, activeAlarmRef, snoozeMinutes,
                   snoozeMinutesRef, vibrating>>
    /\ UNCHANGED <<scheduled, nextNotif>>
    /\ UNCHANGED <<planVars, occVars, noteVars>>

\* The user answers a delivered notification in the tray: its 'snooze' or
\* 'stop' button, or a tap on it (the default action). 'snooze' enters
\* performSnooze(alarmData, 5), 'stop' calls dismissNotificationAsync, both
\* wait; the default action shows the alarm.
NotificationResponse ==
    /\ AlarmTouch
    /\ \E n \in presented, actionId \in {"snooze", "stop", "default"} :
          CASE actionId = "snooze" ->
                  /\ StartHandler("snooze", ActiveAlarm(n), 5)
                  /\ UNCHANGED <<activeAlarm, activeAlarmRef, vibrating>>
            [] actionId = "stop" ->
                  /\ StartHandler("stop", ActiveAlarm(n), 0)
                  /\ UNCHANGED <<activeAlarm, activeAlarmRef, vibrating>>
            [] OTHER ->
                  /\ SetActiveAlarm(<<ActiveAlarm(n)>>)
                  /\ UNCHANGED <<presented, handling>>
    /\ UNCHANGED <<tz, clock, platform, snoozeMinutes, snoozeMinutesRef, slide>>
    /\ UNCHANGED <<scheduled, nextNotif>>
    /\ UNCHANGED <<tasks, stored, planLoad, nextId, selectedDate, showCompleted, now, alert,
                   alertsUnder, mounted, editingTask, modalVisible, saving, closing, sliding>>
    /\ UNCHANGED <<homeVars, occVars, noteVars>>

\* performSnooze after its dismissal was answered (a rejection is caught):
\* snoozeTime is Date.now() plus the minutes, and scheduleNotificationAsync
\* is called for a notification carrying the task id; the call resolves and
\* the notification is scheduled, or it rejects and none is. The handler
\* waits for the answer.
performSnooze ==
    /\ nextNotif <= MaxNotifications
    /\ \E k \in 1..Len(handling) :
          /\ handling[k].kind \in {"snooze", "executeSnooze"}
          /\ handling[k].stage = "dismiss"
          /\ \E created \in scheduleNotificationAsync(
                                {Notification(nextNotif, handling[k].alarm.taskId,
                                              clock + handling[k].minutes * 60, TRUE)}) :
                /\ scheduled' = scheduled \cup created
                /\ nextNotif' = nextNotif + Cardinality(created)
          /\ handling' = [handling EXCEPT ![k].stage = "schedule"]
    /\ UNCHANGED <<tz, clock, platform, activeAlarm, activeAlarmRef, snoozeMinutes,
                   snoozeMinutesRef, vibrating, slide, presented>>
    /\ UNCHANGED <<planVars, occVars, noteVars>>

\* A handler is at its last await.
LastAwait(h) ==
    IF h.kind \in {"snooze", "executeSnooze"} THEN h.stage = "schedule" ELSE h.stage = "dismiss"

\* The notification centre has answered the last call of a waiting handler:
\* the handler goes on to setActiveAlarm(null). The 'stop' branch of the
\* response listener has no try/catch: when its dismissal was rejected the
\* listener ends with the rejection and sets nothing.
AlarmHandled ==
    /\ \E k \in 1..Len(handling) :
          /\ LastAwait(handling[k])
          /\ handling' = Drop(handling, k)
          /\ IF handling[k].kind = "stop" /\ ~handling[k].dismissed
             THEN UNCHANGED <<activeAlarm, activeAlarmRef, vibrating>>
             ELSE SetActiveAlarm(<<>>)
    /\ UNCHANGED <<tz, clock, platform, snoozeMinutes, snoozeMinutesRef, slide>>
    /\ UNCHANGED <<scheduled, presented, nextNotif>>
    /\ UNCHANGED <<planVars, occVars, noteVars>>

\* What is stored when the app starts with reminders pending: two tasks for
\* today at 09:00, the first with a reminder 5 minutes ahead, the second,
\* weekly, with one 5 or 30 minutes ahead.
AlarmItems ==
    {<<JSONstringify(<<AlarmTask(1, <<2024, 3, 17>>, <<9, 0>>, "none", 5, <<1>>),
                       AlarmTask(2, <<2024, 3, 17>>, <<9, 0>>, "weekly", alarmLead, <<2>>)>>)>> :
        alarmLead \in {5, 30}}

\* The app starts on such a list, on either platform: the planner mounts,
\* the alarm handler is mounted around it.
AlarmInit ==
    /\ tz \in PlannerZones
    /\ clock = MountTime(tz)
    /\ OccIdle
    /\ NotesIdle
    /\ \E item \in AlarmItems :
          /\ PlannerMount(item)
          /\ nextId = FreshId(item)
          /\ NotificationCentre(item)
    /\ HomeMount
    /\ platform \in {"android", "ios"}
    /\ activeAlarm = <<>>
    /\ activeAlarmRef = <<>>
    /\ snoozeMinutes = 5
    /\ snoozeMinutesRef = 5
    /\ vibrating = FALSE
    /\ slide = <<>>
    /\ handling = <<>>

AlarmNext ==
    \/ PlannerLoaded
    \/ TriggerArrives
    \/ NotificationReceived
    \/ ChooseSnooze
    \/ SwipeRelease
    \/ SlideEnd
    \/ NotificationResponse
    \/ performSnooze
    \/ AlarmHandled

SpecAlarm == AlarmInit /\ [][AlarmNext]_vars

(***************************************************************************)
(* Properties of the exception ledger and the day lists (checked under     *)
(* Spec; C7 under SpecHome)                                                *)
(***************************************************************************)
Ids(seq) == {seq[i].id : i \in 1..Len(seq)}

\* The date string of the selected day.
SelectedStr == formatYMD(selectedDate, tz)

\* The ledger's rule for a recurring task: the occurrence on d is complete
\* iff d is a recorded exception or the series has been ended.
OccurrenceComplete(t, d) == Includes(t.completedExceptions, d) \/ t.isCompleted

\* The time-of-day cutoff of the planner's day list: the task has a start
\* time, that time on the selected day lies before now, and the task's base
\* date is not today.
PastCutoff(t) ==
    /\ t.startTime # NoTime
    /\ (DayNumber(SelectedStr) * 1440 + t.startTime[1] * 60 + t.startTime[2] + tz) * 60 < now
    /\ t.date # getLocalDateString(now, tz)

\* Dates on which the lists are compared.
ViewDates == {<<2024, 3, 3>>, <<2024, 3, 10>>, <<2024, 3, 11>>, <<2024, 3, 17>>,
              <<2024, 3, 24>>, <<2024, 4, 10>>, <<2024, 4, 17>>}

\* C6 (as amended): for a recurring task that occurs on the selected date d,
\* the occurrence counts as complete iff d is in completedExceptions or
\* isCompleted is true. With showCompleted off the day list hides every such
\* task, and hides an occurring task that is not complete only under the
\* time-of-day cutoff; with showCompleted on it lists every occurring task
\* and marks as completed exactly the complete ones.
C6_DayListHidesComplete ==
    \A i \in 1..Len(tasks) :
        (tasks[i].repeat # "none" /\ occursOnDate(tasks[i], SelectedStr, tz))
            => IF showCompleted
               THEN \E r \in 1..Len(Rows) :
                        /\ Rows[r].id = tasks[i].id
                        /\ Rows[r].isCompleted = OccurrenceComplete(tasks[i], SelectedStr)
               ELSE (tasks[i].id \notin Ids(Rows))
                        <=> (OccurrenceComplete(tasks[i], SelectedStr) \/ PastCutoff(tasks[i]))

\* A recurring task with the selected date among its exceptions, the series
\* not ended, hidden from the day list while showCompleted is off.
C6_Witness ==
    /\ ~showCompleted
    /\ \E i \in 1..Len(tasks) :
          /\ tasks[i].repeat # "none"
          /\ occursOnDate(tasks[i], SelectedStr, tz)
          /\ Includes(tasks[i].completedExceptions, SelectedStr)
          /\ ~tasks[i].isCompleted
          /\ ~PastCutoff(tasks[i])
          /\ tasks[i].id \notin Ids(Rows)

\* C6 (as stated): with showCompleted off the day list hides exactly the
\* occurring recurring tasks whose occurrence is complete, and with
\* showCompleted on it marks exactly those as completed.
C6_HidesExactlyComplete ==
    \A i \in 1..Len(tasks) :
        (tasks[i].repeat # "none" /\ occursOnDate(tasks[i], SelectedStr, tz))
            => IF showCompleted
               THEN \E r \in 1..Len(Rows) :
                        /\ Rows[r].id = tasks[i].id
                        /\ Rows[r].isCompleted = OccurrenceComplete(tasks[i], SelectedStr)
               ELSE (tasks[i].id \notin Ids(Rows))
                        <=> OccurrenceComplete(tasks[i], SelectedStr)

\* C7: after a recurring task is completed with 'All upcoming' its occurrence
\* is complete on every date: the planner's day list (showCompleted off)
\* hides it on every date on which it occurs, and so does the home screen's
\* today list whenever it has just been refreshed.
C7_SeriesEndedHiddenEverywhere ==
    \A i \in 1..Len(tasks) :
        (tasks[i].repeat # "none" /\ tasks[i].isCompleted)
            => /\ \A d \in ViewDates :
                     occursOnDate(tasks[i], d, tz)
                         => tasks[i].id \notin
                                Ids(dailyTasks(tasks, toDate(d, tz), FALSE, now, tz))
               /\ (/\ todayTasks = HomeTodayTasks(tasks, clock, tz)
                   /\ occursOnDate(tasks[i], getLocalDateString(clock, tz), tz))
                      => tasks[i].id \notin Ids(todayTasks)

\* C8: 'Only this task' is idempotent: when the selected date is already
\* among the task's exceptions, choosing it again leaves the stored list as
\* it was.
C8_OnlyThisIdempotent ==
    [][(/\ AlertOnlyThis
        /\ \E i \in 1..Len(tasks) :
              /\ tasks[i].id = alert.id
              /\ Includes(tasks[i].completedExceptions, alert.todayStr))
          => tasks' = tasks]_vars

\* C9: 'Only this task' on date d leaves the schedule intact: the task's
\* date, repeat and isCompleted are unchanged, it occurs on the same dates
\* as before, the completion status of every date other than d is unchanged,
\* and every other task is unchanged.
C9_OnlyThisKeepsSchedule ==
    [][AlertOnlyThis
          => /\ Len(tasks') = Len(tasks)
             /\ \A i \in 1..Len(tasks) :
                   IF tasks[i].id = alert.id
                   THEN /\ tasks'[i].id = tasks[i].id
                        /\ tasks'[i].date = tasks[i].date
                        /\ tasks'[i].repeat = tasks[i].repeat
                        /\ tasks'[i].startTime = tasks[i].startTime
                        /\ tasks'[i].isCompleted = tasks[i].isCompleted
                        /\ OccurrenceComplete(tasks'[i], alert.todayStr)
                        /\ \A x \in ViewDates :
                              /\ occursOnDate(tasks'[i], x, tz) = occursOnDate(tasks[i], x, tz)
                              /\ x # alert.todayStr
                                    => OccurrenceComplete(tasks'[i], x)
                                          = OccurrenceComplete(tasks[i], x)
                   ELSE tasks'[i] = tasks[i]]_vars

\* C10: for a non-recurring task the completion action leaves
\* isCompleted true whatever its previous value.
C10_AlwaysCompleted ==
    [][ToggleCompleteNone
          => \A i \in 1..Len(tasks) :
                tasks'[i] # tasks[i] => tasks'[i].isCompleted = TRUE]_vars

(***************************************************************************)
(* Properties of the day lists, the history and the streak (checked under  *)
(* SpecViews unless stated otherwise)                                      *)
(***************************************************************************)
\* Today's date string and the local time of day, in minutes, of now.
TodayStr == CivilFromDays((now - tz * 60) \div 86400)
NowMinutes == ((now - tz * 60) % 86400) \div 60

\* The start time, as minutes of the day.
StartMinutes(t) == t.startTime[1] * 60 + t.startTime[2]

\* The task's start time lies in an earlier minute than now.
StartPassedMinute(t) == t.startTime # NoTime /\ StartMinutes(t) < NowMinutes

\* What each screen treats as done today.
HomeDone(t) ==
    \/ t.repeat = "none" /\ t.isCompleted
    \/ Includes(t.completedExceptions, TodayStr)
PlannerDone(t) == t.isCompleted \/ Includes(t.completedExceptions, TodayStr)

\* C11: with showCompleted off, a task that occurs today and is
\* not done is dropped by the cutoff iff its start time is strictly earlier
\* than the current local time, in the home list and in the planner's list
\* alike, whatever its base date.
C11_DroppedIffStartPassed ==
    \A i \in 1..Len(tasks) :
        occursOnDate(tasks[i], TodayStr, tz)
            => /\ ~HomeDone(tasks[i])
                    => (tasks[i].id \in Ids(HomeTodayTasks(tasks, now, tz))
                            <=> ~StartPassedMinute(tasks[i]))
               /\ (SelectedStr = TodayStr /\ ~showCompleted /\ ~PlannerDone(tasks[i]))
                    => (tasks[i].id \in Ids(Rows) <=> ~StartPassedMinute(tasks[i]))

\* C12: a recurring task whose base date is before today, which occurs today,
\* is not done and has a start time, is in today's active list of every
\* screen (home today list, both planner day lists, showCompleted off) while
\* its start time has not passed, and in none of them once it has passed:
\* task {2024-03-10, 09:00, weekly} on 2024-03-17 is listed at 08:00 and not
\* at 10:00.
C12_RecurringListedUntilStart ==
    \A i \in 1..Len(tasks) :
        (/\ tasks[i].repeat # "none"
         /\ Len(tasks[i].date) = 3
         /\ DateLT(tasks[i].date, TodayStr)
         /\ occursOnDate(tasks[i], TodayStr, tz)
         /\ ~PlannerDone(tasks[i])
         /\ tasks[i].startTime # NoTime
         /\ StartMinutes(tasks[i]) # NowMinutes)
            => LET listed == StartMinutes(tasks[i]) > NowMinutes
                   today  == toDate(TodayStr, tz)
               IN  /\ (tasks[i].id \in Ids(HomeTodayTasks(tasks, now, tz))) = listed
                   /\ (tasks[i].id \in Ids(dailyTasks(tasks, today, FALSE, now, tz))) = listed
                   /\ (tasks[i].id \in Ids(tasksForView(tasks, today, FALSE, now, tz))) = listed

\* The position of the task with the given id in the stored list.
StoredPos(id) == CHOOSE k \in 1..Len(tasks) : tasks[k].id = id

\* The list is ascending by start time, every task without start time comes
\* after every task with one, and equal keys keep the stored order.
SortedTimedFirst(list) ==
    \A i \in 1..Len(list) : \A j \in 1..Len(list) :
        i < j =>
            /\ ~(list[i].startTime = NoTime /\ list[j].startTime # NoTime)
            /\ (list[i].startTime # NoTime /\ list[j].startTime # NoTime)
                   => StartMinutes(list[i]) <= StartMinutes(list[j])
            /\ list[i].startTime = list[j].startTime
                   => StoredPos(list[i].id) < StoredPos(list[j].id)

\* C13: the home today list and the planner's day list are sorted ascending
\* by start time, a task without start time after every task that has one,
\* ties in stored order; tasks stored as '09:00', none, '08:00' are listed
\* as '08:00', '09:00', none.
C13_SortedByStartTime ==
    /\ SortedTimedFirst(HomeTodayTasks(tasks, now, tz))
    /\ SortedTimedFirst(Rows)
    /\ (/\ Len(tasks) = 3
        /\ tasks[1].startTime = <<9, 0>>
        /\ tasks[2].startTime = NoTime
        /\ tasks[3].startTime = <<8, 0>>
        /\ Len(Rows) = 3)
           => [i \in 1..3 |-> Rows[i].id] = <<3, 1, 2>>

\* The counts of the last four days of the history, oldest first.
LastFourCounts ==
    [k \in 1..4 |-> streakHistory[Len(streakHistory) - 4 + k].count]

\* C14: after a refresh, currentStreak is the number of consecutive days with
\* count > 0 walking back from the most recent day, where a most recent day
\* with count 0 is skipped and any earlier day with count 0 ends the walk:
\* counts ending [1,1,1,0] give 3, [1,1,0,1] give 1, two trailing zeros 0.
C14_StreakWalk ==
    streakHistory # <<>> =>
        LET n     == Len(streakHistory)
            start == IF streakHistory[n].count = 0 THEN n - 1 ELSE n
            run   == {k \in 1..start : \A j \in k..start : streakHistory[j].count > 0}
        IN  /\ currentStreak = Cardinality(run)
            /\ LastFourCounts = <<1, 1, 1, 0>> => currentStreak >= 3
            /\ LastFourCounts = <<0, 1, 1, 0>> => currentStreak = 2
            /\ LastFourCounts = <<1, 1, 0, 1>> => currentStreak = 1
            /\ (streakHistory[n].count = 0 /\ streakHistory[n - 1].count = 0)
                   => currentStreak = 0

\* Refreshed with the last four days counting 1, 1, 1, 0 after an empty day:
\* today's zero is skipped and the streak is 3.
C14_Witness ==
    /\ streakHistory # <<>>
    /\ LastFourCounts = <<1, 1, 1, 0>>
    /\ streakHistory[Len(streakHistory) - 4].count = 0
    /\ currentStreak = 3

\* The intensity the specification assigns to a day's count.
Bucket(count) ==
    CASE count = 0        -> 0
      [] count \in 1..2   -> 1
      [] count \in 3..4   -> 2
      [] count \in 5..6   -> 3
      [] count >= 7       -> 4

\* C15: every history entry's intensity is the bucket of its count (0 -> 0,
\* 1-2 -> 1, 3-4 -> 2, 5-6 -> 3, 7 or more -> 4); it lies in 0..4 and is
\* non-decreasing in the count.
C15_IntensityBuckets ==
    /\ \A k \in 1..Len(streakHistory) :
          /\ streakHistory[k].count >= 0
          /\ streakHistory[k].intensity = Bucket(streakHistory[k].count)
          /\ streakHistory[k].intensity \in 0..4
    /\ \A c \in 0..(MaxDone + 1) :
          /\ HomeIntensity(c) = Bucket(c)
          /\ HomeIntensity(c) <= HomeIntensity(c + 1)

\* Refreshed with seven tasks done today: today's entry has intensity 4.
C15_Witness ==
    /\ streakHistory # <<>>
    /\ streakHistory[Len(streakHistory)].count = 7
    /\ streakHistory[Len(streakHistory)].intensity = 4

\* The number of stored tasks that occur on d and whose occurrence on d is
\* complete: a one-time task when isCompleted, a recurring task when d is
\* among its exceptions or isCompleted.
LedgerCount(ts, d) ==
    Cardinality({i \in 1..Len(ts) :
        /\ occursOnDate(ts[i], d, tz)
        /\ IF ts[i].repeat = "none" THEN ts[i].isCompleted
           ELSE Includes(ts[i].completedExceptions, d) \/ ts[i].isCompleted})

\* C16: every refresh of the home screen gives each day d of the history the
\* count of the tasks occurring on d whose occurrence is complete; a series
\* ended with 'All upcoming' counts on every day of the window on which it
\* occurs.
C16_HistoryCountsComplete ==
    [][(LoadRealTimeTasks /\ Head(loading) # <<>> /\ Head(loading)[1].parses) =>
         \A k \in 1..Len(streakHistory') :
             streakHistory'[k].count = LedgerCount(LoadedTasks, streakHistory'[k].date)]_vars

\* The stored list without its i-th record.
Without(ts, i) ==
    [k \in 1..(Len(ts) - 1) |-> IF k < i THEN ts[k] ELSE ts[k + 1]]

\* C18: a task whose date is not a well-formed YYYY-MM-DD string is not
\* reported as occurring on any date, is not in the today list and adds
\* nothing to the history, and the other tasks are listed and counted as
\* they are without it.
C18_MalformedDateExcluded ==
    \A i \in 1..Len(tasks) :
        Len(tasks[i].date) # 3 =>
            /\ \A d \in ViewDates \cup {TodayStr} : ~occursOnDate(tasks[i], d, tz)
            /\ tasks[i].id \notin Ids(HomeTodayTasks(tasks, now, tz))
            /\ HomeTodayTasks(tasks, now, tz) = HomeTodayTasks(Without(tasks, i), now, tz)
            /\ HomeHistory(tasks, now, tz) = HomeHistory(Without(tasks, i), now, tz)

\* The stored list with the exception list of its i-th record emptied.
ClearedExceptions(ts, i) ==
    [k \in 1..Len(ts) |-> IF k = i THEN [ts[k] EXCEPT !.completedExceptions = <<>>]
                          ELSE ts[k]]

\* What a day list shows of each row: which task, and whether it is marked
\* completed.
Shown(rows) == [k \in 1..Len(rows) |-> <<rows[k].id, rows[k].isCompleted>>]

\* C19: the exception list of a one-time task is ignored by every consumer:
\* the planner's day list of every date (showCompleted on or off), the home
\* today list and the history are what they are for the same stored list
\* with that task's exception list emptied, whatever operations produced the
\* stored list.
C19_ExceptionsIgnoredForOneTime ==
    \A i \in 1..Len(tasks) :
        tasks[i].repeat = "none" =>
            LET twin == ClearedExceptions(tasks, i)
            IN  /\ \A d \in CellDates : \A show \in BOOLEAN :
                       Shown(dailyTasks(tasks, toDate(d, tz), show, now, tz))
                           = Shown(dailyTasks(twin, toDate(d, tz), show, now, tz))
                /\ Ids(HomeTodayTasks(tasks, now, tz)) = Ids(HomeTodayTasks(twin, now, tz))
                /\ HomeHistory(tasks, now, tz) = HomeHistory(twin, now, tz)

\* C20: an ended series stays ended: once a recurring task's isCompleted is
\* true, no planner step (tap, 'Only this task', 'All upcoming', edit) stores
\* it with isCompleted false while it is still recurring.
C20_SeriesEndedTerminal ==
    [][\A i \in 1..Len(tasks) : \A j \in 1..Len(tasks') :
          (/\ tasks[i].repeat # "none"
           /\ tasks[i].isCompleted
           /\ tasks'[j].id = tasks[i].id
           /\ tasks'[j].repeat # "none")
              => /\ tasks'[j].isCompleted
                 /\ toggleComplete(tasks, tasks[i])[i].isCompleted]_vars

\* C21: what a refresh of the home screen stores is a function of the task
\* list and the one instant at which the refresh starts: the today list and
\* every history entry (its date, count and intensity) and the streak are
\* those computed from that instant, also when the clock passes a minute,
\* hour or midnight boundary while the refresh runs.
C21_OneInstant ==
    [][(LoadRealTimeTasks /\ Head(loading) # <<>> /\ Head(loading)[1].parses) =>
          /\ todayTasks' = HomeTodayTasks(LoadedTasks, clock, tz)
          /\ streakHistory' = HomeHistory(LoadedTasks, clock, tz)
          /\ currentStreak' = HomeStreak(HomeHistory(LoadedTasks, clock, tz))]_vars

\* C26: after every refresh the history has exactly 14 entries, one per
\* calendar day: each entry's date is the day after the previous entry's,
\* and the last entry is today's local date.
C26_HistoryFourteenDays ==
    [][(LoadRealTimeTasks /\ Head(loading) # <<>> /\ Head(loading)[1].parses) =>
          /\ Len(streakHistory') = 14
          /\ \A k \in 1..(Len(streakHistory') - 1) :
                DayNumber(streakHistory'[k + 1].date) = DayNumber(streakHistory'[k].date) + 1
          /\ streakHistory'[Len(streakHistory')].date = getLocalDateString(clock, tz)]_vars

(***************************************************************************)
(* Properties of the notes screen (checked under SpecNotes)                *)
(***************************************************************************)
\* The local calendar day of a note's timestamp.
NoteDay(iso) == formatYMD(parseISO(iso), tz)

\* One step of a rule from the local day c, read off the calendar: the next
\* day, the day a week later, the same day-of-month of the next calendar
\* month, the same month and day of the next year.
RuleStep(c, rule) ==
    CASE rule = "daily"   -> CivilFromDays(DayNumber(c) + 1)
      [] rule = "weekly"  -> CivilFromDays(DayNumber(c) + 7)
      [] rule = "monthly" -> IF c[2] = 12 THEN <<c[1] + 1, 1, c[3]>>
                             ELSE <<c[1], c[2] + 1, c[3]>>
      [] rule = "yearly"  -> <<c[1] + 1, c[2], c[3]>>

\* C23: rescheduling one occurrence ('This Only') moves the note's date
\* strictly forward by exactly one step of its rule (+1 day, +7 days, same
\* day-of-month next month, same month and day next year); every other
\* field of the note and every other note is unchanged.
C23_ThisOnlyOneStep ==
    [][PerformThisOnly =>
          /\ Len(notes') = Len(notes)
          /\ \A i \in 1..Len(notes) :
                IF notes[i].id = NoteTopAlert.note[1].id
                THEN /\ NoteDay(notes'[i].createdAt)
                            = RuleStep(NoteDay(notes[i].createdAt), notes[i].recurrence)
                     /\ parseISO(notes'[i].createdAt) > parseISO(notes[i].createdAt)
                     /\ notes'[i] = [notes[i] EXCEPT !.createdAt = notes'[i].createdAt]
                ELSE notes'[i] = notes[i]]_vars

\* C30: the date calculateNextOccurrence produces is the earliest date
\* strictly after the base date on which a task with that base date and
\* rule occurs under occursOnDate, both taken as local calendar days.
C30_NextIsEarliestOccurrence ==
    [][PerformThisOnly =>
          \A j \in 1..Len(notes') :
              notes'[j].id = NoteTopAlert.note[1].id =>
                  LET base == NoteDay(NoteTopAlert.note[1].createdAt)
                      next == NoteDay(notes'[j].createdAt)
                      task == NewTask(0, base, NoTime, NoteTopAlert.note[1].recurrence)
                  IN  /\ DateLT(base, next)
                      /\ occursOnDate(task, next, tz)
                      /\ \A n \in (DayNumber(base) + 1)..(DayNumber(next) - 1) :
                            ~occursOnDate(task, CivilFromDays(n), tz)]_vars

(***************************************************************************)
(* Properties of the planner's writers and of the reminders (checked under *)
(* Spec)                                                                   *)
(***************************************************************************)
\* C22: every write to the task list is computed from the list as it is
\* when the write happens: a handler's step that changes the list changes (adds,
\* removes or replaces) one task and leaves every other task as it was, so no
\* completed write is undone by a write made from an older list.
C22_WritesFromCurrentList ==
    [][(tasks' # tasks /\ planLoad' = planLoad) =>
          \E id \in Ids(tasks) \cup Ids(tasks') :
             RemoveTask(tasks', id) = RemoveTask(tasks, id)]_vars

\* The scheduled reminders of the tasks of a list: the pairs of a task and
\* the pending notification its notificationId names.
Reminders(ts) ==
    UNION {{<<ts[i], n>> : n \in {m \in scheduled : <<m.id>> = ts[i].notificationId}} :
              i \in 1..Len(ts)}

\* The reminders of the stored list and of the lists about to be written.
AllReminders ==
    Reminders(tasks)
    \cup UNION {Reminders(Written(saving[k], saving[k].returned)) :
                  k \in {j \in 1..Len(saving) :
                            saving[j].kind = "save" /\ saving[j].stage = "schedule"}}

\* The local calendar day on which a notification fires.
FireDay(n) == getLocalDateString(n.date, tz)

\* The lead of a task's reminder is longer than the time from midnight to
\* its start.
StartsWithinLead(t) ==
    t.startTime[1] * 60 + t.startTime[2] < t.reminderLeadMinutes

\* C25 (as the code has it): a reminder fires reminderLeadMinutes before the
\* start of the task on its base date; that is on the base date, a day on
\* which the task occurs, unless the task starts less than the lead after
\* midnight, and then it is the day before the base date.
C25_ReminderLeadBeforeBaseStart ==
    \A p \in AllReminders :
       /\ p[2].date = TriggerTime(getTaskStartDateTime(p[1], tz), p[1].reminderLeadMinutes)
       /\ IF StartsWithinLead(p[1])
          THEN DayNumber(FireDay(p[2])) = DayNumber(p[1].date) - 1
          ELSE /\ FireDay(p[2]) = p[1].date
               /\ occursOnDate(p[1], FireDay(p[2]), tz)

\* A reminder scheduled in this run, 30 minutes before a 09:00 start, is
\* pending for a stored task.
C25_Witness ==
    \E p \in Reminders(tasks) :
       /\ p[2] \notin PendingFor(<<WeeklyTask, TodayTask>>, tz)
       /\ p[1].startTime = <<9, 0>>
       /\ p[1].reminderLeadMinutes = 30
       /\ MinutesOfDay(p[2].date, tz) = 8 * 60 + 30

\* C25 as stated: every scheduled reminder fires on a day on which the
\* task occurs.
C25_ReminderOnOccurrenceDay ==
    \A p \in AllReminders : occursOnDate(p[1], FireDay(p[2]), tz)

\* C27: when neither handleSave nor handleDelete waits on the reminders,
\* every pending notification that carries the id of an existing task is the
\* one named by that task's notificationId (so there is at most one); and
\* once handleDelete has removed a task from the list no pending notification
\* carries its id.
C27_OneTrackedNotification ==
    [][/\ saving' = <<>> =>
             \A i \in 1..Len(tasks') : \A n \in scheduled' :
                n.taskId = tasks'[i].id => <<n.id>> = tasks'[i].notificationId
       /\ \A id \in Ids(tasks) \ Ids(tasks') :
             (\/ (alert.kind = "delete" /\ alert.id = id /\ saving' = saving)
              \/ \E k \in 1..Len(saving) :
                    /\ saving[k].kind = "delete"
                    /\ saving[k].task.id = id
                    /\ saving' = Drop(saving, k))
                => \A n \in scheduled' : n.taskId # id]_vars

(***************************************************************************)
(* Properties of the alarm handler (checked under SpecAlarm)               *)
(***************************************************************************)
\* C28: when the slide that follows a swipe ends, the handler it starts
\* acts on the alarm that was on screen when the swipe was released, and no
\* notification but that alarm's is dismissed; and a handler that closes
\* the alarm screen closes the alarm it was started for, so an alarm
\* received meanwhile stays. (executeSnooze and executeClose are the
\* swipe's handlers.)
C28_SwipeActsOnShownAlarm ==
    [][/\ Len(slide') < Len(slide) =>
             /\ \A n \in presented \ presented' :
                   n.id = Head(slide).shown.notificationId
             /\ Len(handling') > Len(handling) =>
                   handling'[Len(handling')].alarm = Head(slide).shown
       /\ \A k \in 1..Len(handling) :
             (/\ handling' = Drop(handling, k)
              /\ handling[k].kind \in {"executeSnooze", "executeClose"}
              /\ activeAlarm # <<>>
              /\ activeAlarm' = <<>>) =>
                activeAlarm[1] = handling[k].alarm]_vars

\* The tray's 'stop' handler h has ended with its dismissal rejected.
StopRejected(h) == h.kind = "stop" /\ ~h.dismissed

OccAnswered == oPc = "answered"

\* C17: for a task whose repeat value is not one of the known rules,
\* occursOnDate answers as for repeat 'none': true exactly when the target
\* date equals task.date, false otherwise (and it answers, it never throws).
C17_UnknownRepeatLikeNone ==
    (OccAnswered /\ oTask.repeat \notin Repeats)
        => (oResult <=> oTarget = oTask.date)

\* Seconds after local midnight at which the formatters are probed: 00:00:00,
\* 05:29:59, 12:00:00, 19:00:00 and 23:59:59.
ProbeSeconds == {0, 19799, 43200, 68400, 86399}

\* C24: for every valid date string s and every timezone offset,
\* formatYMD(toDate(s)) = s, and for every instant t of the local day s
\* both getLocalDateString implementations (local components; offset shift
\* and ISO split) return s, the local calendar day, whatever the UTC day of t.
C24_LocalDayRoundTrip ==
    /\ formatYMD(toDate(oTarget, tz), tz) = oTarget
    /\ \A sec \in ProbeSeconds :
          /\ getLocalDateString(toDate(oTarget, tz) + sec, tz) = oTarget
          /\ getLocalDateStringISO(toDate(oTarget, tz) + sec, tz) = oTarget

\* A local midnight east of Greenwich whose UTC day is the previous day (the
\* leap day): both formatters answer the local day.
C24_Witness ==
    /\ OccAnswered
    /\ tz < 0
    /\ oTarget = <<2024, 3, 1>>
    /\ toISODate(toDate(oTarget, tz)) = <<2024, 2, 29>>
    /\ formatYMD(toDate(oTarget, tz), tz) = oTarget
    /\ getLocalDateStringISO(toDate(oTarget, tz), tz) = oTarget

\* C1: for a task with repeat 'none' and any date d, occursOnDate(task, d) is
\* true iff d is the same calendar day as task.date: true on the base date,
\* false on every earlier and every later date.
C1_NoneOnlyOnBaseDate ==
    (OccAnswered /\ oTask.repeat = "none")
        => (oResult <=> oTarget = oTask.date)

\* A one-time task asked about its own base date answers true.
C1_Witness ==
    /\ OccAnswered
    /\ oTask.repeat = "none"
    /\ oTarget = oTask.date
    /\ oResult = TRUE

\* C2: for a recurring task (daily, weekly, monthly, yearly) and any date d
\* strictly before task.date, occursOnDate(task, d) is false, whatever the
\* weekday, day-of-month or month of d.
C2_NeverBeforeBase ==
    (OccAnswered /\ oTask.repeat \in Recurring /\ DateLT(oTarget, oTask.date))
        => oResult = FALSE

\* A weekly task asked about the same weekday one week before its base date.
C2_Witness ==
    /\ OccAnswered
    /\ oTask.repeat = "weekly"
    /\ DayNumber(oTarget) = DayNumber(oTask.date) - 7
    /\ oResult = FALSE

\* C3: for a monthly task and any date d on or after task.date,
\* occursOnDate(task, d) is true iff d has the same day-of-month as
\* task.date; nothing is clamped to the month end, so a task based on the
\* 31st occurs only in months of 31 days (base 2024-01-31: false on
\* 2024-02-29, true on 2024-03-31).
C3_MonthlySameDayOfMonth ==
    (OccAnswered /\ oTask.repeat = "monthly" /\ ~DateLT(oTarget, oTask.date))
        => /\ oResult <=> (oTarget[3] = oTask.date[3])
           /\ (oTask.date[3] = 31 /\ oResult) => oTarget[2] \in {1, 3, 5, 7, 8, 10, 12}
           /\ (oTask.date = <<2024, 1, 31>> /\ oTarget = <<2024, 2, 29>>) => ~oResult
           /\ (oTask.date = <<2024, 1, 31>> /\ oTarget = <<2024, 3, 31>>) => oResult

\* The monthly task of 2024-01-31 asked about the last day of February 2024.
C3_Witness ==
    /\ OccAnswered
    /\ oTask.repeat = "monthly"
    /\ oTask.date = <<2024, 1, 31>>
    /\ oTarget = <<2024, 2, 29>>
    /\ oResult = FALSE

\* C4: for a yearly task and any date d on or after task.date,
\* occursOnDate(task, d) is true iff d has the same month and the same
\* day-of-month as task.date; a task based on Feb 29 occurs in no non-leap
\* year (neither on Feb 28 nor on Mar 1).
C4_YearlySameMonthAndDay ==
    (OccAnswered /\ oTask.repeat = "yearly" /\ ~DateLT(oTarget, oTask.date))
        => /\ oResult <=> (oTarget[2] = oTask.date[2] /\ oTarget[3] = oTask.date[3])
           /\ (oTask.date = <<2024, 2, 29>> /\ oTarget[1] % 4 # 0) => ~oResult

\* The yearly task of 2024-02-29 asked about the next leap day.
C4_Witness ==
    /\ OccAnswered
    /\ oTask.repeat = "yearly"
    /\ oTask.date = <<2024, 2, 29>>
    /\ oTarget = <<2028, 2, 29>>
    /\ oResult = TRUE

\* C5: for a weekly task and any date d on or after task.date,
\* occursOnDate(task, d) is true iff d falls on the same day of the week as
\* task.date, that is iff the number of days from task.date to d is a
\* multiple of 7.
C5_WeeklyEverySevenDays ==
    (OccAnswered /\ oTask.repeat = "weekly" /\ ~DateLT(oTarget, oTask.date))
        => (oResult <=> (DayNumber(oTarget) - DayNumber(oTask.date)) % 7 = 0)

\* A weekly task asked about the day five weeks after its base date.
C5_Witness ==
    /\ OccAnswered
    /\ oTask.repeat = "weekly"
    /\ DayNumber(oTarget) = DayNumber(oTask.date) + 35
    /\ oResult = TRUE

====
